---- MODULE Spec2Model ----
(***************************************************************************)
(* hpc_drive: the item tree store (crud.py), its sharing engine and the    *)
(* signing workflow (api/v1/router_signing.py) over the relational schema  *)
(* of models.py.  Every request first runs the get_current_user dependency *)
(* (security.py), which upserts the caller into the users table, and then  *)
(* the handler.  One action models one request, dependency included.       *)
(***************************************************************************)
EXTENDS Integers, Sequences, FiniteSets, TLC

(* ---------------------------------------------------------------- bounds *)
\* Number of DriveItem rows ever inserted (uuid4 ids are never reused).
MaxItems == 2
\* Number of SigningRequest rows ever inserted.
MaxReqs == 2
\* Last value of the clock read by datetime.utcnow() / func.now().
MaxTime == 2
MaxClassItems == 8

(* ------------------------------------------------------- value universes *)
\* SQL NULL / Python None in an id or timestamp column.
NULL == 0
\* None in a string column or an omitted string input.
NoStr == "None"

UserIds == {1, 2, 3}
Names == {"a.pdf", "b.txt"}
ItemTypes == {"FILE", "FOLDER"}
Comments == {NoStr, "ok"}
\* A well-formed UUID that names no row.
UnknownId == -1

VARIABLES
    users,        \* table users
    items,        \* table drive_items
    meta,         \* table file_metadata
    shares,       \* table share_permissions, in insertion order
    reqs,         \* table signing_requests
    disk,         \* storage paths present under UPLOADS_DIR
    next_item,    \* next fresh item id
    next_req,     \* next fresh request id
    now,          \* the clock
    fk_enforced,  \* whether the engine behind DATABASE_URL enforces FOREIGN KEY clauses
    inflight,     \* requests that passed their checks and have not committed yet
    last          \* the last request and its HTTP status

vars == <<users, items, meta, shares, reqs, disk, next_item, next_req, now, fk_enforced, inflight, last>>

(* ------------------------------------------------------------ security.py *)
\* map_role testing the category before the admin flag
map_role_category_first(user_type, is_admin) ==
    IF user_type = "lecturer" THEN "TEACHER"
    ELSE IF is_admin THEN "ADMIN"
    ELSE "STUDENT"

map_role(user_type, is_admin) ==
    IF is_admin THEN "ADMIN"
    ELSE IF user_type = "lecturer" THEN "TEACHER"
    ELSE "STUDENT"

\* The identity provider's answer for the bearer token of user u.
AuthData(u) ==
    [id |-> u,
     username |-> CASE u = 1 -> "root" [] u = 2 -> "lec" [] OTHER -> "stu",
     email |-> CASE u = 1 -> "root@x" [] u = 2 -> "lec@x" [] OTHER -> "stu@x",
     user_type |-> IF u = 2 THEN "lecturer" ELSE "student",
     is_admin |-> (u = 1)]

\* session.get(User, id); the caller of UserRow knows the row exists.
UserRow(us, u) == CHOOSE r \in us : r.user_id = u

\* get_current_user: insert when absent, update the stale fields when present.
get_current_user(us, u) ==
    LET d == AuthData(u)
        new_role == map_role(d.user_type, d.is_admin)
        fresh == [user_id |-> d.id, username |-> d.username, email |-> d.email, role |-> new_role]
    IN IF \A r \in us : r.user_id # d.id
       THEN us \cup {fresh}
       ELSE LET old == UserRow(us, u)
            IN IF old.username # d.username \/ old.email # d.email \/ old.role # new_role
               THEN (us \ {old}) \cup {fresh}
               ELSE us

\* users.username and users.email are UNIQUE: would writing `row` violate it?
UqUserViolated(us, row) ==
    \E r \in us : /\ r.user_id # row.user_id
                  /\ (r.username = row.username \/ r.email = row.email)

\* sync_user adding the row to the session and writing it even when nothing is stale
sync_user_always_writes(us, user_data) ==
    LET new_role == map_role(user_data.user_type, user_data.is_admin)
        fresh == [user_id |-> user_data.id, username |-> user_data.username,
                  email |-> user_data.email, role |-> new_role]
        failed == [res |-> 500, users |-> us, wrote |-> FALSE]
    IN IF \A r \in us : r.user_id # user_data.id
       THEN IF UqUserViolated(us, fresh) THEN failed
            ELSE [res |-> 200, users |-> us \cup {fresh}, wrote |-> TRUE]
       ELSE LET user == UserRow(us, user_data.id)
            IN IF UqUserViolated(us, fresh) THEN failed
               ELSE [res |-> 200, users |-> (us \ {user}) \cup {fresh}, wrote |-> TRUE]

\* get_current_user for any assertion the identity provider can return, with
\* the commit that can fail: the status, the users table after it, and whether
\* the commit had a pending INSERT or UPDATE. On 200 the User returned is the
\* row of user_data.id.
sync_user(us, user_data) ==
    LET new_role == map_role(user_data.user_type, user_data.is_admin)
        fresh == [user_id |-> user_data.id, username |-> user_data.username,
                  email |-> user_data.email, role |-> new_role]
        failed == [res |-> 500, users |-> us, wrote |-> FALSE]
    IN IF \A r \in us : r.user_id # user_data.id
       THEN IF UqUserViolated(us, fresh) THEN failed
            ELSE [res |-> 200, users |-> us \cup {fresh}, wrote |-> TRUE]
       ELSE LET user == UserRow(us, user_data.id)
                update_made == \/ user.username # user_data.username
                               \/ user.email # user_data.email
                               \/ user.role # new_role
            IN IF ~update_made THEN [res |-> 200, users |-> us, wrote |-> FALSE]
               ELSE IF UqUserViolated(us, fresh) THEN failed
               ELSE [res |-> 200, users |-> (us \ {user}) \cup {fresh}, wrote |-> TRUE]

(* -------------------------------------------------------------- models.py *)
\* A DriveItem as the ORM inserts it: the columns not given take their defaults.
NewDriveItem(id, name, item_type, parent_id, owner_id, owner_type) ==
    [item_id |-> id,
     name |-> name,
     item_type |-> item_type,
     is_trashed |-> FALSE,
     trashed_at |-> NULL,
     permission |-> "PRIVATE",
     updated_at |-> NULL,
     repository_type |-> "PERSONAL",
     repository_context_id |-> NULL,
     owner_type |-> owner_type,
     process_status |-> "PENDING_UPLOAD",
     is_system_generated |-> FALSE,
     is_locked |-> FALSE,
     owner_id |-> owner_id,
     parent_id |-> parent_id]

\* UNIQUE (owner_id, parent_id, name): would inserting or updating to `row` violate it?
\* A UNIQUE index compares column values with =, and NULL = NULL is not true, so two
\* rows whose parent_id is NULL never collide.
UqOwnerParentNameViolated(its, row) ==
    \E r \in its :
        /\ r.item_id # row.item_id
        /\ r.owner_id = row.owner_id
        /\ r.name = row.name
        /\ r.parent_id # NULL
        /\ row.parent_id # NULL
        /\ r.parent_id = row.parent_id

\* FOREIGN KEY parent_id -> drive_items.item_id, checked only by an enforcing engine.
FkParentViolated(its, row) ==
    /\ fk_enforced
    /\ row.parent_id # NULL
    /\ \A r \in its : r.item_id # row.parent_id

\* sqlalchemy.exc.IntegrityError at flush/commit of `row`.
IntegrityError(its, row) ==
    UqOwnerParentNameViolated(its, row) \/ FkParentViolated(its, row)

HasItem(its, id) == \E r \in its : r.item_id = id
ItemRow(its, id) == CHOOSE r \in its : r.item_id = id

(* ---------------------------------------------------------------- crud.py *)
\* Every crud function is an operator from the tables it reads (and the clock
\* reading t where it stamps a row) to the HTTP status it answers with and the
\* tables as it leaves them.
\* get_owner_type without the TEACHER case
get_owner_type_without_lecturer(role) ==
    IF role = "ADMIN" THEN "ADMIN"
    ELSE "STUDENT"

get_owner_type(role) ==
    IF role = "ADMIN" THEN "ADMIN"
    ELSE IF role = "TEACHER" THEN "LECTURER"
    ELSE "STUDENT"

create_drive_item(its, id, name, item_type, parent_id, owner) ==
    LET db_item == NewDriveItem(id, name, item_type, parent_id, owner.user_id,
                                get_owner_type(owner.role))
    IN IF IntegrityError(its, db_item)
       THEN [res |-> 409, items |-> its]
       ELSE [res |-> 201, items |-> its \cup {db_item}]

NewFileMetadata(item_id, mime_type, size, storage_path) ==
    [item_id |-> item_id, mime_type |-> mime_type, size |-> size,
     storage_path |-> storage_path, version |-> 1]

HasMeta(ms, id) == \E m \in ms : m.item_id = id
MetaRow(ms, id) == CHOOSE m \in ms : m.item_id = id

\* file_metadata.storage_path is UNIQUE and item_id is its primary key.
UqStoragePathViolated(ms, row) ==
    \E m \in ms : m.storage_path = row.storage_path \/ m.item_id = row.item_id

\* create_file_with_metadata without the rollback of the flushed item when the
\* metadata row is refused
create_file_with_metadata_no_rollback(its, ms, id, owner, filename, parent_id, mime_type, size, storage_path) ==
    LET db_item == NewDriveItem(id, filename, "FILE", parent_id, owner.user_id,
                                get_owner_type(owner.role))
        db_metadata == NewFileMetadata(id, mime_type, size, storage_path)
    IN IF IntegrityError(its, db_item)
       THEN [res |-> 409, items |-> its, meta |-> ms]
       ELSE IF UqStoragePathViolated(ms, db_metadata)
       THEN [res |-> 409, items |-> its \cup {db_item}, meta |-> ms]
       ELSE [res |-> 201, items |-> its \cup {db_item}, meta |-> ms \cup {db_metadata}]

\* The item is flushed, the metadata row added and both committed; an
\* IntegrityError of either insert rolls the session back and answers 409.
create_file_with_metadata(its, ms, id, owner, filename, parent_id, mime_type, size, storage_path) ==
    LET db_item == NewDriveItem(id, filename, "FILE", parent_id, owner.user_id,
                                get_owner_type(owner.role))
        db_metadata == NewFileMetadata(id, mime_type, size, storage_path)
    IN IF IntegrityError(its, db_item) \/ UqStoragePathViolated(ms, db_metadata)
       THEN [res |-> 409, items |-> its, meta |-> ms]
       ELSE [res |-> 201, items |-> its \cup {db_item}, meta |-> ms \cup {db_metadata}]

\* get_item_for_owner that lets the administrator (user 1) through
get_item_for_owner_or_admin(its, item_id, owner_id) ==
    \E r \in its : r.item_id = item_id /\ (r.owner_id = owner_id \/ owner_id = 1)

\* The row exists and the caller owns it; otherwise the callers answer 404.
get_item_for_owner(its, item_id, owner_id) ==
    \E r \in its : r.item_id = item_id /\ r.owner_id = owner_id

\* An ORM UPDATE of a drive_items row: updated_at has onupdate=func.now().
OrmUpdate(its, old, new, t) ==
    (its \ {old}) \cup {[new EXCEPT !.updated_at = t]}

\* trash_item without the is_trashed test
trash_item_unchecked(its, item_id, owner_id, t) ==
    IF ~get_item_for_owner(its, item_id, owner_id)
    THEN [res |-> 404, items |-> its]
    ELSE LET db_item == ItemRow(its, item_id)
         IN [res |-> 200,
             items |-> OrmUpdate(its, db_item,
                         [db_item EXCEPT !.is_trashed = TRUE, !.trashed_at = t], t)]

\* trash_item marking the children of the item as well
trash_item_with_children(its, item_id, owner_id, t) ==
    IF ~get_item_for_owner(its, item_id, owner_id)
    THEN [res |-> 404, items |-> its]
    ELSE IF ItemRow(its, item_id).is_trashed
    THEN [res |-> 400, items |-> its]
    ELSE [res |-> 200,
          items |-> {IF r.item_id = item_id \/ r.parent_id = item_id
                     THEN [r EXCEPT !.is_trashed = TRUE, !.trashed_at = t, !.updated_at = t]
                     ELSE r : r \in its}]

trash_item(its, item_id, owner_id, t) ==
    IF ~get_item_for_owner(its, item_id, owner_id)
    THEN [res |-> 404, items |-> its]
    ELSE LET db_item == ItemRow(its, item_id)
         IN IF db_item.is_trashed
            THEN [res |-> 400, items |-> its]
            ELSE [res |-> 200,
                  items |-> OrmUpdate(its, db_item,
                              [db_item EXCEPT !.is_trashed = TRUE, !.trashed_at = t], t)]

\* restore_item clearing the flag only
restore_item_keeps_trashed_at(its, item_id, owner_id, t) ==
    IF ~get_item_for_owner(its, item_id, owner_id)
    THEN [res |-> 404, items |-> its]
    ELSE LET db_item == ItemRow(its, item_id)
         IN IF ~db_item.is_trashed
            THEN [res |-> 400, items |-> its]
            ELSE [res |-> 200,
                  items |-> OrmUpdate(its, db_item,
                              [db_item EXCEPT !.is_trashed = FALSE], t)]

restore_item(its, item_id, owner_id, t) ==
    IF ~get_item_for_owner(its, item_id, owner_id)
    THEN [res |-> 404, items |-> its]
    ELSE LET db_item == ItemRow(its, item_id)
         IN IF ~db_item.is_trashed
            THEN [res |-> 400, items |-> its]
            ELSE [res |-> 200,
                  items |-> OrmUpdate(its, db_item,
                              [db_item EXCEPT !.is_trashed = FALSE, !.trashed_at = NULL], t)]

\* check_for_name_conflict comparing parent_id with =, which no NULL satisfies
check_for_name_conflict_eq(its, owner_id, parent_id, name, exclude_item_id) ==
    \E r \in its :
        /\ r.owner_id = owner_id
        /\ parent_id # NULL
        /\ r.parent_id = parent_id
        /\ r.name = name
        /\ r.item_id # exclude_item_id

\* The query of check_for_name_conflict finds a row: `parent_id == None` compiles
\* to IS NULL, so root siblings are compared too; trashed rows are not filtered out.
check_for_name_conflict(its, owner_id, parent_id, name, exclude_item_id) ==
    \E r \in its :
        /\ r.owner_id = owner_id
        /\ r.parent_id = parent_id
        /\ r.name = name
        /\ r.item_id # exclude_item_id

\* update_drive_item that takes a null parent_id as a move to the root
update_drive_item_null_is_root(its, item_id, owner_id, name, parent_id, t) ==
    IF ~get_item_for_owner(its, item_id, owner_id)
    THEN [res |-> 404, items |-> its]
    ELSE LET db_item == ItemRow(its, item_id)
             new_name == IF name # NoStr THEN name ELSE db_item.name
             new_parent_id == parent_id
             new_row == [db_item EXCEPT !.name = new_name, !.parent_id = new_parent_id]
         IN IF new_name = db_item.name /\ new_parent_id = db_item.parent_id
            THEN [res |-> 200, items |-> its]
            ELSE IF check_for_name_conflict(its, owner_id, new_parent_id, new_name, item_id)
            THEN [res |-> 409, items |-> its]
            ELSE IF IntegrityError(its, new_row)
            THEN [res |-> 409, items |-> its]
            ELSE [res |-> 200, items |-> OrmUpdate(its, db_item, new_row, t)]

\* A name of NoStr or a parent_id of NULL is an omitted (or null) field of
\* DriveItemUpdate.
update_drive_item(its, item_id, owner_id, name, parent_id, t) ==
    IF ~get_item_for_owner(its, item_id, owner_id)
    THEN [res |-> 404, items |-> its]
    ELSE LET db_item == ItemRow(its, item_id)
             new_name == IF name # NoStr THEN name ELSE db_item.name
             new_parent_id == IF parent_id # NULL THEN parent_id ELSE db_item.parent_id
             new_row == [db_item EXCEPT !.name = new_name, !.parent_id = new_parent_id]
         IN IF name = NoStr /\ parent_id = NULL
            THEN [res |-> 200, items |-> its]
            ELSE IF new_name = db_item.name /\ new_parent_id = db_item.parent_id
            THEN [res |-> 200, items |-> its]
            ELSE IF check_for_name_conflict(its, owner_id, new_parent_id, new_name, item_id)
            THEN [res |-> 409, items |-> its]
            ELSE IF IntegrityError(its, new_row)
            THEN [res |-> 409, items |-> its]
            ELSE [res |-> 200, items |-> OrmUpdate(its, db_item, new_row, t)]

get_user_by_username(us, username) == {r \in us : r.username = username}

ShareRows(sh, item_id) == {k \in 1 .. Len(sh) : sh[k].item_id = item_id}

\* share_item without the test for the owner as grantee
share_item_to_anyone(its, sh, us, item_id, owner_id, username, t) ==
    LET found == get_user_by_username(us, username)
        same == [items |-> its, shares |-> sh]
    IN IF ~get_item_for_owner(its, item_id, owner_id)
       THEN [res |-> 404] @@ same
       ELSE IF found = {}
       THEN [res |-> 404] @@ same
       ELSE LET user_to_share_with == CHOOSE r \in found : TRUE
                db_item == ItemRow(its, item_id)
            IN IF \E k \in ShareRows(sh, item_id) :
                     sh[k].shared_with_user_id = user_to_share_with.user_id
               THEN [res |-> 409] @@ same
               ELSE [res |-> 200,
                     shares |-> Append(sh, [item_id |-> item_id,
                                            shared_with_user_id |-> user_to_share_with.user_id,
                                            permission_level |-> "VIEWER"]),
                     items |-> IF db_item.permission = "SHARED" THEN its
                               ELSE OrmUpdate(its, db_item,
                                              [db_item EXCEPT !.permission = "SHARED"], t)]

\* share_item without the assignment db_item.permission = SHARED
share_item_keeps_permission(its, sh, us, item_id, owner_id, username, t) ==
    LET found == get_user_by_username(us, username)
        same == [items |-> its, shares |-> sh]
    IN IF ~get_item_for_owner(its, item_id, owner_id)
       THEN [res |-> 404] @@ same
       ELSE IF found = {}
       THEN [res |-> 404] @@ same
       ELSE LET user_to_share_with == CHOOSE r \in found : TRUE
            IN IF user_to_share_with.user_id = owner_id
               THEN [res |-> 400] @@ same
               ELSE IF \E k \in ShareRows(sh, item_id) :
                          sh[k].shared_with_user_id = user_to_share_with.user_id
               THEN [res |-> 409] @@ same
               ELSE [res |-> 200,
                     shares |-> Append(sh, [item_id |-> item_id,
                                            shared_with_user_id |-> user_to_share_with.user_id,
                                            permission_level |-> "VIEWER"]),
                     items |-> its]

\* The item row is written only when its permission changes (the unit of work
\* skips a row none of whose attributes changed).
share_item(its, sh, us, item_id, owner_id, username, t) ==
    LET found == get_user_by_username(us, username)
        same == [items |-> its, shares |-> sh]
    IN IF ~get_item_for_owner(its, item_id, owner_id)
       THEN [res |-> 404] @@ same
       ELSE IF found = {}
       THEN [res |-> 404] @@ same
       ELSE LET user_to_share_with == CHOOSE r \in found : TRUE
                db_item == ItemRow(its, item_id)
            IN IF user_to_share_with.user_id = owner_id
               THEN [res |-> 400] @@ same
               ELSE IF \E k \in ShareRows(sh, item_id) :
                          sh[k].shared_with_user_id = user_to_share_with.user_id
               THEN [res |-> 409] @@ same
               ELSE [res |-> 200,
                     shares |-> Append(sh, [item_id |-> item_id,
                                            shared_with_user_id |-> user_to_share_with.user_id,
                                            permission_level |-> "VIEWER"]),
                     items |-> IF db_item.permission = "SHARED" THEN its
                               ELSE OrmUpdate(its, db_item,
                                              [db_item EXCEPT !.permission = "SHARED"], t)]

\* share_permissions has UNIQUE(item_id, shared_with_user_id).
UqItemSharedUserViolated(sh, db_share) ==
    \E k \in 1 .. Len(sh) : /\ sh[k].item_id = db_share.item_id
                            /\ sh[k].shared_with_user_id = db_share.shared_with_user_id

\* The second half of share_item, from db.add(db_share) on: the commit of a
\* request whose checks passed against an earlier state of the table. Every
\* exception of the commit, the IntegrityError of the unique constraint
\* included, is caught by `except Exception`, rolled back and answered 500.
share_item_commit(its, sh, db_share, t) ==
    IF UqItemSharedUserViolated(sh, db_share) \/ ~HasItem(its, db_share.item_id)
    THEN [res |-> 500, items |-> its, shares |-> sh]
    ELSE LET db_item == ItemRow(its, db_share.item_id)
         IN [res |-> 200,
             shares |-> Append(sh, db_share),
             items |-> IF db_item.permission = "SHARED" THEN its
                       ELSE OrmUpdate(its, db_item, [db_item EXCEPT !.permission = "SHARED"], t)]

\* _delete_file_from_storage builds the path from models.settings, and module
\* models has no attribute settings: the AttributeError is raised inside the try
\* block, caught by `except Exception`, printed, and nothing is unlinked.
delete_file_from_storage(dsk, storage_path) == dsk

\* Ids of the rows in S and of every row below one of them (DriveItem.children).
RECURSIVE Subtree(_, _)
Subtree(its, S) ==
    LET S2 == S \cup {r.item_id : r \in {x \in its : x.parent_id \in S}}
    IN IF S2 = S THEN S ELSE Subtree(its, S2)

Children(its, id) == {r.item_id : r \in {x \in its : x.parent_id = id}}

\* The row is its own ancestor.
OnCycle(its, id) == id \in Subtree(its, Children(its, id))

\* OrmDelete without the cascade to children and file_metadata
OrmDelete_roots_only(its, ms, sh, rs, roots) ==
    [items |-> {r \in its : r.item_id \notin roots},
     meta |-> ms,
     shares |-> SelectSeq(sh, LAMBDA s : s.item_id \notin roots),
     reqs |-> IF fk_enforced THEN {q \in rs : q.drive_item_id \notin roots} ELSE rs]

\* session.delete of the rows `roots`, flushed: relationship cascade
\* "all, delete-orphan" removes children (recursively), file_metadata and
\* share_permissions in the unit of work; signing_requests has no relationship on
\* DriveItem and goes only by ON DELETE CASCADE, which an engine that does not
\* enforce foreign keys never runs.
OrmDelete(its, ms, sh, rs, roots) ==
    LET D == Subtree(its, roots)
    IN [items |-> {r \in its : r.item_id \notin D},
        meta |-> {m \in ms : m.item_id \notin D},
        shares |-> SelectSeq(sh, LAMBDA s : s.item_id \notin D),
        reqs |-> IF fk_enforced THEN {q \in rs : q.drive_item_id \notin D} ELSE rs]

\* The outcomes of db.delete(...); db.commit() inside try/except: the unit of
\* work orders the DELETEs of a parent/child chain, and rows that are each
\* other's ancestor cannot be ordered: the flush then either raises (rollback,
\* 500) or emits the DELETEs anyway.
FlushDelete(its, ms, sh, rs, roots, ok) ==
    {[res |-> ok] @@ OrmDelete(its, ms, sh, rs, roots)}
    \cup (IF \E i \in Subtree(its, roots) : OnCycle(its, i)
          THEN {[res |-> 500, items |-> its, meta |-> ms, shares |-> sh, reqs |-> rs]}
          ELSE {})

get_trashed_item_for_owner(its, item_id, owner_id) ==
    \E r \in its : r.item_id = item_id /\ r.owner_id = owner_id /\ r.is_trashed

\* The non-trashed rows `owner_id` owns directly under `parent_id` (NULL is
\* the root); the ORDER BY only arranges the answer.
get_user_items_in_folder(its, owner_id, parent_id) ==
    {r \in its : r.owner_id = owner_id /\ r.parent_id = parent_id /\ ~r.is_trashed}

\* The non-trashed rows some share row grants to `user_id`.
get_shared_with_me_items(its, sh, user_id) ==
    {r \in its : /\ \E k \in 1..Len(sh) : /\ sh[k].item_id = r.item_id
                                         /\ sh[k].shared_with_user_id = user_id
                 /\ ~r.is_trashed}

get_drive_item_ignores_trash(its, sh, item_id, user_id) ==
    IF ~HasItem(its, item_id) THEN 404
    ELSE LET item == ItemRow(its, item_id)
         IN IF item.owner_id = user_id THEN 200
            ELSE IF \E k \in 1..Len(sh) : /\ sh[k].item_id = item_id
                                          /\ sh[k].shared_with_user_id = user_id
                 THEN 200
                 ELSE 403

\* The status of fetching one row by id for `user_id`; on 200 the answer is
\* the row itself.
get_drive_item(its, sh, item_id, user_id) ==
    IF ~HasItem(its, item_id) THEN 404
    ELSE LET item == ItemRow(its, item_id)
         IN IF item.is_trashed /\ item.owner_id # user_id THEN 404
            ELSE IF item.owner_id = user_id THEN 200
            ELSE IF \E k \in 1..Len(sh) : /\ sh[k].item_id = item_id
                                          /\ sh[k].shared_with_user_id = user_id
                 THEN 200
                 ELSE 403

\* Storage left after a payload loop over the rows `ids`.
RECURSIVE DeletePayloads(_, _, _)
DeletePayloads(dsk, ms, ids) ==
    IF ids = {} THEN dsk
    ELSE LET id == CHOOSE x \in ids : TRUE
             d2 == IF HasMeta(ms, id)
                   THEN delete_file_from_storage(dsk, MetaRow(ms, id).storage_path)
                   ELSE dsk
         IN DeletePayloads(d2, ms, ids \ {id})

\* The set of outcomes; empty when the request never answers: the breadth-first
\* walk over a FOLDER that is its own ancestor never empties its queue.
delete_item_permanently(its, ms, sh, rs, dsk, item_id, owner_id) ==
    IF ~get_trashed_item_for_owner(its, item_id, owner_id)
    THEN {[res |-> 404, items |-> its, meta |-> ms, shares |-> sh, reqs |-> rs, disk |-> dsk]}
    ELSE LET db_item == ItemRow(its, item_id)
             items_to_check == IF db_item.item_type = "FOLDER"
                               THEN Subtree(its, {item_id}) ELSE {item_id}
             files == {i \in items_to_check : ItemRow(its, i).item_type = "FILE"}
         IN IF db_item.item_type = "FOLDER" /\ OnCycle(its, item_id)
            THEN {}
            ELSE {[disk |-> DeletePayloads(dsk, ms, files)] @@ o :
                     o \in FlushDelete(its, ms, sh, rs, {item_id}, 204)}

empty_user_trash(its, ms, sh, rs, dsk, owner_id) ==
    LET all_trashed_items == {r \in its : r.owner_id = owner_id /\ r.is_trashed}
        files == {r.item_id : r \in {x \in all_trashed_items : x.item_type = "FILE"}}
        top_level_trashed_items ==
            {r \in all_trashed_items :
                \/ r.parent_id = NULL
                \/ /\ HasItem(its, r.parent_id)
                   /\ ~ItemRow(its, r.parent_id).is_trashed}
    IN IF all_trashed_items = {}
       THEN {[res |-> 204, items |-> its, meta |-> ms, shares |-> sh, reqs |-> rs, disk |-> dsk]}
       ELSE {[disk |-> DeletePayloads(dsk, ms, files)] @@ o :
                o \in FlushDelete(its, ms, sh, rs,
                                  {r.item_id : r \in top_level_trashed_items}, 204)}

admin_delete_item_permanently(its, ms, sh, rs, item_id) ==
    IF ~HasItem(its, item_id)
    THEN {[res |-> 404, items |-> its, meta |-> ms, shares |-> sh, reqs |-> rs]}
    ELSE FlushDelete(its, ms, sh, rs, {item_id}, 200)

(* ------------------------------------------------- api/v1/router_signing.py *)
\* drive_item.name.lower().endswith('.pdf'), over the names in use
EndsWithPdf(name) == name \in {"a.pdf"}

OpenStatuses == {"DRAFT", "PENDING"}

HasReq(rs, id) == \E q \in rs : q.request_id = id
ReqRow(rs, id) == CHOOSE q \in rs : q.request_id = id

\* Depends(get_current_admin_user)
get_current_admin_user(current_user) == current_user.role = "ADMIN"

\* FOREIGN KEY approver_id -> users.user_id at the INSERT of a signing request;
\* the handler does not catch the IntegrityError, which is answered 500.
FkApproverViolated(us, approver_id) ==
    /\ fk_enforced
    /\ approver_id # NULL
    /\ \A r \in us : r.user_id # approver_id

\* create_signing_request without the role test
create_signing_request_by_any_role(rs, its, ms, us, id, current_user, drive_item_id, approver_id) ==
    IF ~HasItem(its, drive_item_id)
    THEN [res |-> 404, reqs |-> rs]
    ELSE LET drive_item == ItemRow(its, drive_item_id)
         IN IF current_user.role # "ADMIN" /\ drive_item.owner_id # current_user.user_id
            THEN [res |-> 403, reqs |-> rs]
            ELSE IF drive_item.item_type # "FILE"
            THEN [res |-> 400, reqs |-> rs]
            ELSE IF HasMeta(ms, drive_item_id) /\ ~EndsWithPdf(drive_item.name)
            THEN [res |-> 400, reqs |-> rs]
            ELSE IF \E q \in rs : /\ q.drive_item_id = drive_item_id
                                  /\ q.current_status \in OpenStatuses
            THEN [res |-> 400, reqs |-> rs]
            ELSE IF FkApproverViolated(us, approver_id)
            THEN [res |-> 500, reqs |-> rs]
            ELSE [res |-> 200,
                  reqs |-> rs \cup {[request_id |-> id,
                                     drive_item_id |-> drive_item_id,
                                     requester_id |-> current_user.user_id,
                                     approver_id |-> approver_id,
                                     current_status |-> "DRAFT",
                                     admin_comment |-> NoStr,
                                     approved_at |-> NULL]}]

create_signing_request(rs, its, ms, us, id, current_user, drive_item_id, approver_id) ==
    IF current_user.role \notin {"TEACHER", "ADMIN"}
    THEN [res |-> 403, reqs |-> rs]
    ELSE IF ~HasItem(its, drive_item_id)
    THEN [res |-> 404, reqs |-> rs]
    ELSE LET drive_item == ItemRow(its, drive_item_id)
         IN IF current_user.role # "ADMIN" /\ drive_item.owner_id # current_user.user_id
            THEN [res |-> 403, reqs |-> rs]
            ELSE IF drive_item.item_type # "FILE"
            THEN [res |-> 400, reqs |-> rs]
            ELSE IF HasMeta(ms, drive_item_id) /\ ~EndsWithPdf(drive_item.name)
            THEN [res |-> 400, reqs |-> rs]
            ELSE IF \E q \in rs : /\ q.drive_item_id = drive_item_id
                                  /\ q.current_status \in OpenStatuses
            THEN [res |-> 400, reqs |-> rs]
            ELSE IF FkApproverViolated(us, approver_id)
            THEN [res |-> 500, reqs |-> rs]
            ELSE [res |-> 200,
                  reqs |-> rs \cup {[request_id |-> id,
                                     drive_item_id |-> drive_item_id,
                                     requester_id |-> current_user.user_id,
                                     approver_id |-> approver_id,
                                     current_status |-> "DRAFT",
                                     admin_comment |-> NoStr,
                                     approved_at |-> NULL]}]

\* submit_signing_request without the DRAFT test
submit_signing_request_unchecked(rs, current_user, request_id) ==
    IF ~HasReq(rs, request_id)
    THEN [res |-> 404, reqs |-> rs]
    ELSE LET request == ReqRow(rs, request_id)
         IN IF request.requester_id # current_user.user_id /\ current_user.role # "ADMIN"
            THEN [res |-> 403, reqs |-> rs]
            ELSE [res |-> 200,
                  reqs |-> (rs \ {request})
                           \cup {[request EXCEPT !.current_status = "PENDING"]}]

\* submit_signing_request without the ownership test
submit_signing_request_by_anyone(rs, current_user, request_id) ==
    IF ~HasReq(rs, request_id)
    THEN [res |-> 404, reqs |-> rs]
    ELSE LET request == ReqRow(rs, request_id)
         IN IF request.current_status # "DRAFT"
            THEN [res |-> 400, reqs |-> rs]
            ELSE [res |-> 200,
                  reqs |-> (rs \ {request})
                           \cup {[request EXCEPT !.current_status = "PENDING"]}]

submit_signing_request(rs, current_user, request_id) ==
    IF ~HasReq(rs, request_id)
    THEN [res |-> 404, reqs |-> rs]
    ELSE LET request == ReqRow(rs, request_id)
         IN IF request.requester_id # current_user.user_id /\ current_user.role # "ADMIN"
            THEN [res |-> 403, reqs |-> rs]
            ELSE IF request.current_status # "DRAFT"
            THEN [res |-> 400, reqs |-> rs]
            ELSE [res |-> 200,
                  reqs |-> (rs \ {request})
                           \cup {[request EXCEPT !.current_status = "PENDING"]}]

\* approve_signing_request without the PENDING test
approve_signing_request_unchecked(rs, current_user, request_id, admin_comment, t, delivers) ==
    IF ~get_current_admin_user(current_user)
    THEN [res |-> 403, reqs |-> rs, notification |-> "none"]
    ELSE IF ~HasReq(rs, request_id)
    THEN [res |-> 404, reqs |-> rs, notification |-> "none"]
    ELSE LET request == ReqRow(rs, request_id)
         IN [res |-> 200,
             reqs |-> (rs \ {request})
                      \cup {[request EXCEPT !.current_status = "APPROVED",
                                            !.approver_id = current_user.user_id,
                                            !.approved_at = t,
                                            !.admin_comment = admin_comment]},
             notification |-> IF delivers THEN "sent" ELSE "failed"]

\* approve_signing_request with the notification outside any try block and
\* ahead of the commit
approve_signing_request_notify_first(rs, current_user, request_id, admin_comment, t, delivers) ==
    IF ~get_current_admin_user(current_user)
    THEN [res |-> 403, reqs |-> rs, notification |-> "none"]
    ELSE IF ~HasReq(rs, request_id)
    THEN [res |-> 404, reqs |-> rs, notification |-> "none"]
    ELSE LET request == ReqRow(rs, request_id)
         IN IF request.current_status # "PENDING"
            THEN [res |-> 400, reqs |-> rs, notification |-> "none"]
            ELSE IF ~delivers
            THEN [res |-> 502, reqs |-> rs, notification |-> "failed"]
            ELSE [res |-> 200,
                  reqs |-> (rs \ {request})
                           \cup {[request EXCEPT !.current_status = "APPROVED",
                                                 !.approver_id = current_user.user_id,
                                                 !.approved_at = t,
                                                 !.admin_comment = admin_comment]},
                  notification |-> "sent"]

\* `delivers` is whether the notification collaborator accepts the message:
\* the handler commits, then calls it inside try/except and only logs a failure.
approve_signing_request(rs, current_user, request_id, admin_comment, t, delivers) ==
    IF ~get_current_admin_user(current_user)
    THEN [res |-> 403, reqs |-> rs, notification |-> "none"]
    ELSE IF ~HasReq(rs, request_id)
    THEN [res |-> 404, reqs |-> rs, notification |-> "none"]
    ELSE LET request == ReqRow(rs, request_id)
         IN IF request.current_status # "PENDING"
            THEN [res |-> 400, reqs |-> rs, notification |-> "none"]
            ELSE [res |-> 200,
                  reqs |-> (rs \ {request})
                           \cup {[request EXCEPT !.current_status = "APPROVED",
                                                 !.approver_id = current_user.user_id,
                                                 !.approved_at = t,
                                                 !.admin_comment = admin_comment]},
                  notification |-> IF delivers THEN "sent" ELSE "failed"]

reject_signing_request(rs, current_user, request_id, admin_comment, delivers) ==
    IF ~get_current_admin_user(current_user)
    THEN [res |-> 403, reqs |-> rs, notification |-> "none"]
    ELSE IF ~HasReq(rs, request_id)
    THEN [res |-> 404, reqs |-> rs, notification |-> "none"]
    ELSE LET request == ReqRow(rs, request_id)
         IN IF request.current_status # "PENDING"
            THEN [res |-> 400, reqs |-> rs, notification |-> "none"]
            ELSE [res |-> 200,
                  reqs |-> (rs \ {request})
                           \cup {[request EXCEPT !.current_status = "REJECTED",
                                                 !.approver_id = current_user.user_id,
                                                 !.admin_comment = admin_comment]},
                  notification |-> IF delivers THEN "sent" ELSE "failed"]

(* --------------------------------------- api/v1/router_department_storage.py *)
DeptIds == {1, 2}

\* What an identity assertion can say about a lecturer: no lecturer_info at
\* all, lecturer_info without a department, or one naming a department.
LecturerInfos ==
    {[present |-> FALSE, department_id |-> NULL]}
    \cup {[present |-> TRUE, department_id |-> d] : d \in {NULL} \cup DeptIds}

\* The decoded identity assertion of the bearer token of user u; only a
\* lecturer's assertion carries lecturer_info, with an optional department id.
get_current_user_data_from_token(u, info) ==
    [id |-> u,
     user_type |-> AuthData(u).user_type,
     is_admin |-> AuthData(u).is_admin,
     lecturer_info |-> IF AuthData(u).user_type = "lecturer" THEN info
                       ELSE [present |-> FALSE, department_id |-> NULL]]

\* f"Department_{department_id}_Root"
DepartmentRootName(department_id) ==
    IF department_id = 1 THEN "Department_1_Root" ELSE "Department_2_Root"

\* check_department_permission without the comparison of departments
check_department_permission_any_department(user, user_data, department_id) ==
    IF user.role = "ADMIN" THEN 200
    ELSE IF user.role = "STUDENT" THEN 403
    ELSE IF user.role = "TEACHER"
         THEN LET lecturer_dept_id == IF user_data.lecturer_info.present
                                      THEN user_data.lecturer_info.department_id
                                      ELSE NULL
              IN IF lecturer_dept_id = NULL THEN 400
                 ELSE 200
         ELSE 200

\* check_department_permission letting a lecturer without a department through
check_department_permission_no_department(user, user_data, department_id) ==
    IF user.role = "ADMIN" THEN 200
    ELSE IF user.role = "STUDENT" THEN 403
    ELSE IF user.role = "TEACHER"
         THEN LET lecturer_dept_id == IF user_data.lecturer_info.present
                                      THEN user_data.lecturer_info.department_id
                                      ELSE NULL
              IN IF lecturer_dept_id # NULL /\ lecturer_dept_id # department_id THEN 403
                 ELSE 200
         ELSE 200

\* 200 stands for `return True`; the other answers are the HTTPException raised.
check_department_permission(user, user_data, department_id) ==
    IF user.role = "ADMIN" THEN 200
    ELSE IF user.role = "STUDENT" THEN 403
    ELSE IF user.role = "TEACHER"
         THEN LET lecturer_dept_id == IF user_data.lecturer_info.present
                                      THEN user_data.lecturer_info.department_id
                                      ELSE NULL
              IN IF lecturer_dept_id = NULL THEN 400
                 ELSE IF lecturer_dept_id # department_id THEN 403
                 ELSE 200
         ELSE 200

\* The rows the root-folder query matches; .first() returns one of them.
get_department_root_folder(its, department_id) ==
    {r \in its : /\ r.repository_type = "DEPARTMENT"
                 /\ r.repository_context_id = department_id
                 /\ r.parent_id = NULL
                 /\ r.name = DepartmentRootName(department_id)}

\* The answers the listing can give: the status and, on 200, the rows.
list_department_items(its, user, user_data, department_id, parent_id) ==
    LET perm == check_department_permission(user, user_data, department_id)
        scope == {r \in its : /\ r.repository_type = "DEPARTMENT"
                              /\ r.repository_context_id = department_id
                              /\ ~r.is_trashed}
        roots == get_department_root_folder(its, department_id)
    IN IF perm # 200 THEN {[res |-> perm, rows |-> {}]}
       ELSE IF parent_id # NULL
            THEN {[res |-> 200, rows |-> {r \in scope : r.parent_id = parent_id}]}
       ELSE IF roots = {}
            THEN {[res |-> 200, rows |-> {r \in scope : r.parent_id = NULL}]}
       ELSE {[res |-> 200, rows |-> {r \in scope : r.parent_id = root.item_id}] :
                root \in roots}

\* file.content_type or "application/octet-stream"
ContentTypeOrDefault(content_type) ==
    IF content_type = NoStr THEN "application/octet-stream" ELSE content_type

\* The permission check runs before the try block; inside it the bytes are
\* saved first, and any exception rolls the session back and unlinks them.
upload_to_department_storage(its, ms, dsk, file_id, user, user_data, department_id, filename, parent_id, content_type, file_size) ==
    LET perm == check_department_permission(user, user_data, department_id)
        storage_path == file_id
        drive_item == [NewDriveItem(file_id, filename, "FILE", parent_id, user.user_id,
                                    IF user.role = "TEACHER" THEN "LECTURER" ELSE "ADMIN")
                         EXCEPT !.repository_type = "DEPARTMENT",
                                !.repository_context_id = department_id,
                                !.process_status = "READY",
                                !.is_system_generated = FALSE,
                                !.is_locked = FALSE]
    IN IF perm # 200
       THEN [res |-> perm, items |-> its, meta |-> ms, disk |-> dsk]
       ELSE IF IntegrityError(its, drive_item)
       THEN [res |-> 500, items |-> its, meta |-> ms, disk |-> dsk]
       ELSE [res |-> 200,
             items |-> its \cup {drive_item},
             meta |-> ms \cup {NewFileMetadata(file_id, ContentTypeOrDefault(content_type),
                                               file_size, storage_path)},
             disk |-> dsk \cup {storage_path}]

(* ------------------------------------- integrations/system_management.py *)
ClassIds == {1, 2}

\* What the directory collaborator answers when asked for the classes of a
\* lecturer: a failure (HTTP error, timeout, unreachable) or a list of classes.
TeachingAnswers ==
    {[failed |-> TRUE, class_ids |-> {}]}
    \cup {[failed |-> FALSE, class_ids |-> S] : S \in SUBSET ClassIds}

\* check_lecturer_teaches_class letting the lecturer through when the call fails
check_lecturer_teaches_class_fail_open(answer, class_id) ==
    IF answer.failed THEN TRUE
    ELSE class_id \in answer.class_ids

\* get_lecturer_classes inside try/except: any exception denies.
check_lecturer_teaches_class(answer, class_id) ==
    IF answer.failed THEN FALSE
    ELSE class_id \in answer.class_ids

(* ------------------------------------------ api/v1/router_class_storage.py *)
\* range(1, 5)
Semesters == 1 .. 4

\* f"Class_{class_id}_Root"
ClassRootName(class_id) == IF class_id = 1 THEN "Class_1_Root" ELSE "Class_2_Root"

\* f"Kỳ {semester_num}"
SemesterName(semester_num) ==
    CASE semester_num = 1 -> "Ky 1"
      [] semester_num = 2 -> "Ky 2"
      [] semester_num = 3 -> "Ky 3"
      [] OTHER -> "Ky 4"

InfoFolderName == "Thong tin lop hoc"

\* 200 stands for `return True`; the other answers are the HTTPException raised.
check_class_permission(user, class_id, answer, require_upload) ==
    IF user.role = "ADMIN" THEN 200
    ELSE IF require_upload
         THEN IF user.role # "TEACHER" THEN 403
              ELSE IF ~check_lecturer_teaches_class(answer, class_id) THEN 403
              ELSE 200
         ELSE 200

\* The rows the root-folder query matches; .first() returns one of them.
get_class_root_folder(its, class_id) ==
    {r \in its : /\ r.repository_type = "CLASS"
                 /\ r.repository_context_id = class_id
                 /\ r.parent_id = NULL
                 /\ r.name = ClassRootName(class_id)}

\* The DriveItem create_folder adds to the session; the flush is the caller's
\* IntegrityError test.
create_folder(id, name, parent_id, class_id, owner, is_system_generated, is_locked) ==
    [NewDriveItem(id, name, "FOLDER", parent_id, owner.user_id,
                  IF owner.role = "ADMIN" THEN "ADMIN" ELSE "LECTURER")
       EXCEPT !.repository_type = "CLASS",
              !.repository_context_id = class_id,
              !.is_system_generated = is_system_generated,
              !.is_locked = is_locked,
              !.process_status = "READY"]

\* The session while the folders are generated: the rows flushed so far, the
\* next fresh id, and whether a flush has failed. A failed flush leaves the
\* session's transaction rolled back, so every later flush and the commit raise.
Flushed(acc, row) ==
    IF acc.broken \/ IntegrityError(acc.items, row)
    THEN [acc EXCEPT !.broken = TRUE]
    ELSE [items |-> acc.items \cup {row}, next |-> acc.next + 1, broken |-> FALSE]

\* The course folders of one semester, from the k-th course on.
RECURSIVE CourseFolders(_, _, _, _, _, _)
CourseFolders(acc, names, k, semester_folder_id, class_id, owner) ==
    IF k > Len(names) \/ acc.broken THEN acc
    ELSE CourseFolders(Flushed(acc, create_folder(acc.next, names[k], semester_folder_id,
                                                  class_id, owner, TRUE, FALSE)),
                       names, k + 1, semester_folder_id, class_id, owner)

\* The semester folders from semester_num on; courses[n] is the collaborator's
\* answer for semester n, and a failed answer only skips that semester's courses.
RECURSIVE SemesterFolders(_, _, _, _, _, _)
SemesterFolders(acc, semester_num, root_id, class_id, owner, courses) ==
    IF semester_num \notin Semesters \/ acc.broken THEN acc
    ELSE LET with_semester ==
                 Flushed(acc, create_folder(acc.next, SemesterName(semester_num), root_id,
                                            class_id, owner, TRUE, TRUE))
             with_courses ==
                 IF courses[semester_num].failed THEN with_semester
                 ELSE CourseFolders(with_semester, courses[semester_num].names, 1,
                                    acc.next, class_id, owner)
         IN SemesterFolders(with_courses, semester_num + 1, root_id, class_id, owner,
                            courses)

\* The answer, the item table and the next fresh id after the request.
auto_generate_class_folders(its, first_id, user, answer, class_id, courses) ==
    LET perm == check_class_permission(user, class_id, answer, TRUE)
        refused(res) == [res |-> res, items |-> its, next |-> first_id]
        with_root == Flushed([items |-> its, next |-> first_id, broken |-> FALSE],
                             create_folder(first_id, ClassRootName(class_id), NULL,
                                           class_id, user, TRUE, TRUE))
        with_info == Flushed(with_root,
                             create_folder(with_root.next, InfoFolderName, first_id,
                                           class_id, user, TRUE, TRUE))
        all == SemesterFolders(with_info, 1, first_id, class_id, user, courses)
    IN IF perm # 200 THEN refused(perm)
       ELSE IF get_class_root_folder(its, class_id) # {} THEN refused(400)
       ELSE IF all.broken THEN refused(500)
       ELSE [res |-> 200, items |-> all.items, next |-> all.next]

\* The try block of auto_generate_class_folders, from the creation of the root
\* to the commit, for a request that already passed the permission check and
\* the existing_root test.
generate_class_folders(its, first_id, user, class_id, courses) ==
    LET with_root == Flushed([items |-> its, next |-> first_id, broken |-> FALSE],
                             create_folder(first_id, ClassRootName(class_id), NULL,
                                           class_id, user, TRUE, TRUE))
        with_info == Flushed(with_root,
                             create_folder(with_root.next, InfoFolderName, first_id,
                                           class_id, user, TRUE, TRUE))
        all == SemesterFolders(with_info, 1, first_id, class_id, user, courses)
    IN IF all.broken THEN [res |-> 500, items |-> its, next |-> first_id]
       ELSE [res |-> 200, items |-> all.items, next |-> all.next]

\* The answers the listing can give: the status and, on 200, the rows.
list_class_items(its, user, answer, class_id, parent_id) ==
    LET perm == check_class_permission(user, class_id, answer, FALSE)
        scope == {r \in its : /\ r.repository_type = "CLASS"
                              /\ r.repository_context_id = class_id
                              /\ ~r.is_trashed}
        roots == get_class_root_folder(its, class_id)
    IN IF perm # 200 THEN {[res |-> perm, rows |-> {}]}
       ELSE IF parent_id # NULL
            THEN {[res |-> 200, rows |-> {r \in scope : r.parent_id = parent_id}]}
       ELSE IF roots = {}
            THEN {[res |-> 200, rows |-> {r \in scope : r.parent_id = NULL}]}
       ELSE {[res |-> 200, rows |-> {r \in scope : r.parent_id = root.item_id}] :
                root \in roots}

\* The permission check runs before the try block; inside it the bytes are
\* saved, the rows committed, and then the class is notified inside a nested
\* try/except that only logs. Any other exception rolls back and unlinks.
upload_to_class_storage(its, ms, dsk, file_id, user, answer, class_id, filename, parent_id, content_type, file_size, delivers) ==
    LET perm == check_class_permission(user, class_id, answer, TRUE)
        storage_path == file_id
        drive_item == [NewDriveItem(file_id, filename, "FILE", parent_id, user.user_id,
                                    IF user.role = "TEACHER" THEN "LECTURER" ELSE "ADMIN")
                         EXCEPT !.repository_type = "CLASS",
                                !.repository_context_id = class_id,
                                !.process_status = "READY",
                                !.is_system_generated = FALSE,
                                !.is_locked = FALSE]
    IN IF perm # 200
       THEN [res |-> perm, items |-> its, meta |-> ms, disk |-> dsk,
             notification |-> "none"]
       ELSE IF IntegrityError(its, drive_item)
       THEN [res |-> 500, items |-> its, meta |-> ms, disk |-> dsk,
             notification |-> "none"]
       ELSE [res |-> 200,
             items |-> its \cup {drive_item},
             meta |-> ms \cup {NewFileMetadata(file_id, ContentTypeOrDefault(content_type),
                                               file_size, storage_path)},
             disk |-> dsk \cup {storage_path},
             notification |-> IF delivers THEN "sent" ELSE "failed"]

(* ------------------------------------------------------------- requests *)
\* One action per endpoint: the get_current_user dependency, then the handler.
Done(op, res) == [op |-> op, res |-> res]

\* The same for a handler that ends by notifying somebody: "sent", "failed",
\* or "none" when the handler did not get that far.
DoneNotifying(op, res, notification) ==
    [op |-> op, res |-> res, notification |-> notification]

\* Ids a client can send: ids it has seen (allocated, possibly deleted since) or
\* a made-up one.
AllocatedIds == 1 .. (next_item - 1)
ItemIdInputs == AllocatedIds \cup {UnknownId}
ParentInputs == {NULL} \cup ItemIdInputs
ReqIdInputs == 1 .. next_req

\* POST /drive/items
create_item(u, name, item_type, parent_id) ==
    LET us == get_current_user(users, u)
        r == create_drive_item(items, next_item, name, item_type, parent_id, UserRow(us, u))
    IN /\ next_item <= MaxItems
       /\ users' = us
       /\ items' = r.items
       /\ next_item' = IF r.res = 201 THEN next_item + 1 ELSE next_item
       /\ last' = Done("create_item", r.res)
       /\ UNCHANGED <<meta, shares, reqs, disk, next_req, now, fk_enforced, inflight>>

\* POST /drive/upload: the bytes are written under a fresh directory first; when
\* the insert fails the handler unlinks them again.
upload_file(u, filename, parent_id, mime_type, size) ==
    LET us == get_current_user(users, u)
        storage_path == next_item
        r == create_file_with_metadata(items, meta, next_item, UserRow(us, u), filename,
                                       parent_id, mime_type, size, storage_path)
    IN /\ next_item <= MaxItems
       /\ users' = us
       /\ items' = r.items
       /\ meta' = r.meta
       /\ disk' = IF r.res = 201 THEN disk \cup {storage_path} ELSE disk
       /\ next_item' = IF r.res = 201 THEN next_item + 1 ELSE next_item
       /\ last' = Done("upload_file", r.res)
       /\ UNCHANGED <<shares, reqs, next_req, now, fk_enforced, inflight>>

\* PATCH /drive/items/{item_id}/trash
move_item_to_trash(u, item_id) ==
    LET r == trash_item(items, item_id, u, now)
    IN /\ users' = get_current_user(users, u)
       /\ items' = r.items
       /\ last' = Done("move_item_to_trash", r.res)
       /\ UNCHANGED <<meta, shares, reqs, disk, next_item, next_req, now, fk_enforced, inflight>>

\* PATCH /drive/items/{item_id}/restore
restore_item_from_trash(u, item_id) ==
    LET r == restore_item(items, item_id, u, now)
    IN /\ users' = get_current_user(users, u)
       /\ items' = r.items
       /\ last' = Done("restore_item_from_trash", r.res)
       /\ UNCHANGED <<meta, shares, reqs, disk, next_item, next_req, now, fk_enforced, inflight>>

\* PATCH /drive/items/{item_id}
update_item_details(u, item_id, name, parent_id) ==
    LET r == update_drive_item(items, item_id, u, name, parent_id, now)
    IN /\ users' = get_current_user(users, u)
       /\ items' = r.items
       /\ last' = Done("update_item_details", r.res)
       /\ UNCHANGED <<meta, shares, reqs, disk, next_item, next_req, now, fk_enforced, inflight>>

\* POST /drive/items/{item_id}/share
share_an_item(u, item_id, username) ==
    LET us == get_current_user(users, u)
        r == share_item(items, shares, us, item_id, u, username, now)
    IN /\ users' = us
       /\ items' = r.items
       /\ shares' = r.shares
       /\ last' = Done("share_an_item", r.res)
       /\ UNCHANGED <<meta, reqs, disk, next_item, next_req, now, fk_enforced, inflight>>

\* DELETE /drive/trash/{item_id}
permanently_delete_item(u, item_id) ==
    \E r \in delete_item_permanently(items, meta, shares, reqs, disk, item_id, u) :
       /\ users' = get_current_user(users, u)
       /\ items' = r.items
       /\ meta' = r.meta
       /\ shares' = r.shares
       /\ reqs' = r.reqs
       /\ disk' = r.disk
       /\ last' = Done("permanently_delete_item", r.res)
       /\ UNCHANGED <<next_item, next_req, now, fk_enforced, inflight>>

\* DELETE /drive/trash
empty_trash(u) ==
    \E r \in empty_user_trash(items, meta, shares, reqs, disk, u) :
       /\ users' = get_current_user(users, u)
       /\ items' = r.items
       /\ meta' = r.meta
       /\ shares' = r.shares
       /\ reqs' = r.reqs
       /\ disk' = r.disk
       /\ last' = Done("empty_trash", r.res)
       /\ UNCHANGED <<next_item, next_req, now, fk_enforced, inflight>>

\* DELETE /admin/drive/items/{item_id}, behind Depends(get_current_admin_user)
admin_delete_item(u, item_id) ==
    LET us == get_current_user(users, u)
    IN /\ users' = us
       /\ IF ~get_current_admin_user(UserRow(us, u))
          THEN /\ UNCHANGED <<items, meta, shares, reqs>>
               /\ last' = Done("admin_delete_item", 403)
          ELSE \E r \in admin_delete_item_permanently(items, meta, shares, reqs, item_id) :
                  /\ items' = r.items
                  /\ meta' = r.meta
                  /\ shares' = r.shares
                  /\ reqs' = r.reqs
                  /\ last' = Done("admin_delete_item", r.res)
       /\ UNCHANGED <<disk, next_item, next_req, now, fk_enforced, inflight>>

\* POST /signing/request
CreateSigningRequest(u, drive_item_id, approver_id) ==
    LET us == get_current_user(users, u)
        r == create_signing_request(reqs, items, meta, us, next_req, UserRow(us, u),
                                    drive_item_id, approver_id)
    IN /\ next_req <= MaxReqs
       /\ users' = us
       /\ reqs' = r.reqs
       /\ next_req' = IF r.res = 200 THEN next_req + 1 ELSE next_req
       /\ last' = Done("create_signing_request", r.res)
       /\ UNCHANGED <<items, meta, shares, disk, next_item, now, fk_enforced, inflight>>

\* PUT /signing/{request_id}/submit
SubmitSigningRequest(u, request_id) ==
    LET us == get_current_user(users, u)
        r == submit_signing_request(reqs, UserRow(us, u), request_id)
    IN /\ users' = us
       /\ reqs' = r.reqs
       /\ last' = Done("submit_signing_request", r.res)
       /\ UNCHANGED <<items, meta, shares, disk, next_item, next_req, now, fk_enforced, inflight>>

\* PUT /signing/{request_id}/approve
ApproveSigningRequest(u, request_id, admin_comment, delivers) ==
    LET us == get_current_user(users, u)
        r == approve_signing_request(reqs, UserRow(us, u), request_id, admin_comment, now,
                                     delivers)
    IN /\ users' = us
       /\ reqs' = r.reqs
       /\ last' = DoneNotifying("approve_signing_request", r.res, r.notification)
       /\ UNCHANGED <<items, meta, shares, disk, next_item, next_req, now, fk_enforced, inflight>>

\* PUT /signing/{request_id}/reject
RejectSigningRequest(u, request_id, admin_comment, delivers) ==
    LET us == get_current_user(users, u)
        r == reject_signing_request(reqs, UserRow(us, u), request_id, admin_comment, delivers)
    IN /\ users' = us
       /\ reqs' = r.reqs
       /\ last' = DoneNotifying("reject_signing_request", r.res, r.notification)
       /\ UNCHANGED <<items, meta, shares, disk, next_item, next_req, now, fk_enforced, inflight>>

\* GET /drive/items
list_items_in_folder(u, parent_id) ==
    /\ users' = get_current_user(users, u)
    /\ last' = Done("list_items_in_folder", 200)
    /\ UNCHANGED <<items, meta, shares, reqs, disk, next_item, next_req, now, fk_enforced, inflight>>

\* GET /drive/items/{item_id}
get_item_details(u, item_id) ==
    /\ users' = get_current_user(users, u)
    /\ last' = Done("get_item_details", get_drive_item(items, shares, item_id, u))
    /\ UNCHANGED <<items, meta, shares, reqs, disk, next_item, next_req, now, fk_enforced, inflight>>

\* GET /drive/shared-with-me
get_items_shared_with_me(u) ==
    /\ users' = get_current_user(users, u)
    /\ last' = Done("get_items_shared_with_me", 200)
    /\ UNCHANGED <<items, meta, shares, reqs, disk, next_item, next_req, now, fk_enforced, inflight>>

\* What a department-storage request leaves behind for the properties: its
\* answer, the caller, the department asked for and the department asserted.
DoneInDepartment(op, res, u, user_data, department_id) ==
    [op |-> op, res |-> res, user_id |-> u, department_id |-> department_id,
     lecturer_dept_id |-> IF user_data.lecturer_info.present
                          THEN user_data.lecturer_info.department_id
                          ELSE NULL]

\* GET /department-storage/{department_id}/items
ListDepartmentItems(u, info, department_id, parent_id) ==
    LET us == get_current_user(users, u)
        user_data == get_current_user_data_from_token(u, info)
    IN \E r \in list_department_items(items, UserRow(us, u), user_data, department_id,
                                      parent_id) :
          /\ users' = us
          /\ last' = DoneInDepartment("list_department_items", r.res, u, user_data,
                                      department_id)
          /\ UNCHANGED <<items, meta, shares, reqs, disk, next_item, next_req, now,
                         fk_enforced, inflight>>

\* POST /department-storage/{department_id}/upload
UploadToDepartmentStorage(u, info, department_id, filename, parent_id, content_type, file_size) ==
    LET us == get_current_user(users, u)
        user_data == get_current_user_data_from_token(u, info)
        r == upload_to_department_storage(items, meta, disk, next_item, UserRow(us, u),
                                          user_data, department_id, filename, parent_id,
                                          content_type, file_size)
    IN /\ next_item <= MaxItems
       /\ users' = us
       /\ items' = r.items
       /\ meta' = r.meta
       /\ disk' = r.disk
       /\ next_item' = IF r.res = 200 THEN next_item + 1 ELSE next_item
       /\ last' = DoneInDepartment("upload_to_department_storage", r.res, u, user_data,
                                   department_id)
       /\ UNCHANGED <<shares, reqs, next_req, now, fk_enforced, inflight>>

\* What a class-storage request leaves behind for the properties: its answer,
\* the caller, the class asked for, what the directory collaborator said about
\* the caller's classes, and what became of the notification.
DoneInClass(op, res, u, answer, class_id, notification) ==
    [op |-> op, res |-> res, user_id |-> u, class_id |-> class_id, answer |-> answer,
     notification |-> notification]

\* POST /class-storage/auto-generate/{class_id}
AutoGenerateClassFolders(u, answer, class_id, courses) ==
    LET us == get_current_user(users, u)
        r == auto_generate_class_folders(items, next_item, UserRow(us, u), answer, class_id,
                                         courses)
    IN /\ next_item <= MaxClassItems
       /\ users' = us
       /\ items' = r.items
       /\ next_item' = r.next
       /\ last' = DoneInClass("auto_generate_class_folders", r.res, u, answer, class_id,
                              "none")
       /\ UNCHANGED <<meta, shares, reqs, disk, next_req, now, fk_enforced, inflight>>

\* GET /class-storage/{class_id}/items
ListClassItems(u, answer, class_id, parent_id) ==
    LET us == get_current_user(users, u)
    IN \E r \in list_class_items(items, UserRow(us, u), answer, class_id, parent_id) :
          /\ users' = us
          /\ last' = DoneInClass("list_class_items", r.res, u, answer, class_id, "none")
          /\ UNCHANGED <<items, meta, shares, reqs, disk, next_item, next_req, now,
                         fk_enforced, inflight>>

\* POST /class-storage/{class_id}/upload
UploadToClassStorage(u, answer, class_id, filename, parent_id, content_type, file_size, delivers) ==
    LET us == get_current_user(users, u)
        r == upload_to_class_storage(items, meta, disk, next_item, UserRow(us, u), answer,
                                     class_id, filename, parent_id, content_type, file_size,
                                     delivers)
    IN /\ next_item <= MaxClassItems
       /\ Cardinality(meta) < MaxItems
       /\ users' = us
       /\ items' = r.items
       /\ meta' = r.meta
       /\ disk' = r.disk
       /\ next_item' = IF r.res = 200 THEN next_item + 1 ELSE next_item
       /\ last' = DoneInClass("upload_to_class_storage", r.res, u, answer, class_id,
                              r.notification)
       /\ UNCHANGED <<shares, reqs, next_req, now, fk_enforced, inflight>>

\* The identity sync of an authenticated request, for any assertion the
\* identity provider can return for the bearer token.
Authenticate(user_data) ==
    LET r == sync_user(users, user_data)
    IN /\ users' = r.users
       /\ last' = [op |-> "get_current_user", res |-> r.res, user_data |-> user_data,
                   wrote |-> r.wrote]
       /\ UNCHANGED <<items, meta, shares, reqs, disk, next_item, next_req, now, fk_enforced, inflight>>

\* POST /drive/items/{item_id}/share run concurrently with other requests: the
\* lookups and the existing_share query of one request, then (in a later step,
\* after other requests may have committed) its commit.
MaxInflight == 2

ShareChecked(u, item_id, username) ==
    LET us == get_current_user(users, u)
        r == share_item(items, shares, us, item_id, u, username, now)
        rid == CHOOSE n \in 1 .. MaxInflight : \A t \in inflight : t.rid # n
        db_share == r.shares[Len(r.shares)]
    IN /\ Cardinality(inflight) < MaxInflight
       /\ users' = us
       /\ IF r.res = 200
          THEN /\ inflight' = inflight \cup {[rid |-> rid, kind |-> "share", db_share |-> db_share]}
               /\ last' = Done("share_an_item_checked", 200)
          ELSE /\ inflight' = inflight
               /\ last' = Done("share_an_item", r.res)
       /\ UNCHANGED <<items, meta, shares, reqs, disk, next_item, next_req, now, fk_enforced>>

ShareCommitted(t) ==
    LET r == share_item_commit(items, shares, t.db_share, now)
    IN /\ t \in inflight /\ t.kind = "share"
       /\ inflight' = inflight \ {t}
       /\ items' = r.items
       /\ shares' = r.shares
       /\ last' = [op |-> "share_an_item", res |-> r.res, db_share |-> t.db_share]
       /\ UNCHANGED <<users, meta, reqs, disk, next_item, next_req, now, fk_enforced>>

\* POST /class-storage/auto-generate/{class_id} run concurrently with other
\* requests: the permission check and the existing_root query of one request,
\* then (in a later step) its try block with the commit.
AutoGenerateChecked(u, answer, class_id) ==
    LET us == get_current_user(users, u)
        perm == check_class_permission(UserRow(us, u), class_id, answer, TRUE)
        res == IF perm # 200 THEN perm
               ELSE IF get_class_root_folder(items, class_id) # {} THEN 400
               ELSE 200
        rid == CHOOSE n \in 1 .. MaxInflight : \A t \in inflight : t.rid # n
    IN /\ Cardinality(inflight) < MaxInflight
       /\ users' = us
       /\ IF res = 200
          THEN /\ inflight' = inflight \cup {[rid |-> rid, kind |-> "auto_generate",
                                              user_id |-> u, answer |-> answer,
                                              class_id |-> class_id]}
               /\ last' = Done("auto_generate_class_folders_checked", 200)
          ELSE /\ inflight' = inflight
               /\ last' = DoneInClass("auto_generate_class_folders", res, u, answer,
                                      class_id, "none")
       /\ UNCHANGED <<items, meta, shares, reqs, disk, next_item, next_req, now, fk_enforced>>

AutoGenerateCommitted(t, courses) ==
    /\ t \in inflight /\ t.kind = "auto_generate"
    /\ next_item <= MaxClassItems
    /\ LET r == generate_class_folders(items, next_item, UserRow(users, t.user_id),
                                       t.class_id, courses)
       IN /\ items' = r.items
          /\ next_item' = r.next
          /\ last' = DoneInClass("auto_generate_class_folders", r.res, t.user_id, t.answer,
                                 t.class_id, "none")
    /\ inflight' = inflight \ {t}
    /\ UNCHANGED <<users, meta, shares, reqs, disk, next_req, now, fk_enforced>>

\* The UPDATE that session.commit() issues for a signing request loaded as
\* `loaded` and changed in memory to `changed`: it is keyed by request_id alone
\* and sets only the attributes that were changed, over whatever the row holds
\* by then.  A row that is gone meanwhile makes the commit fail (500).
OrmUpdateRequest(rs, loaded, changed) ==
    IF ~HasReq(rs, loaded.request_id)
    THEN [res |-> 500, reqs |-> rs]
    ELSE LET cur == ReqRow(rs, loaded.request_id)
             row == [f \in DOMAIN cur |-> IF changed[f] # loaded[f] THEN changed[f] ELSE cur[f]]
         IN [res |-> 200, reqs |-> (rs \ {cur}) \cup {row}]

\* PUT /signing/{request_id}/approve and /reject run concurrently with other
\* requests: the admin dependency, the load of the request, the PENDING test and
\* the assignments of one request, then (in a later step) its commit.
DecideChecked(u, request_id, decision, admin_comment) ==
    LET us == get_current_user(users, u)
        r == IF decision = "approve_signing_request"
             THEN approve_signing_request(reqs, UserRow(us, u), request_id, admin_comment, now, TRUE)
             ELSE reject_signing_request(reqs, UserRow(us, u), request_id, admin_comment, TRUE)
        rid == CHOOSE n \in 1 .. MaxInflight : \A t \in inflight : t.rid # n
    IN /\ Cardinality(inflight) < MaxInflight
       /\ users' = us
       /\ IF r.res = 200
          THEN /\ inflight' = inflight \cup {[rid |-> rid, kind |-> "decide",
                                              decision |-> decision, user_id |-> u,
                                              loaded |-> ReqRow(reqs, request_id),
                                              changed |-> ReqRow(r.reqs, request_id)]}
               /\ last' = Done("decide_checked", 200)
          ELSE /\ inflight' = inflight
               /\ last' = DoneNotifying(decision, r.res, "none")
       /\ UNCHANGED <<items, meta, shares, reqs, disk, next_item, next_req, now, fk_enforced>>

DecideCommitted(t, delivers) ==
    /\ t \in inflight /\ t.kind = "decide"
    /\ LET r == OrmUpdateRequest(reqs, t.loaded, t.changed)
       IN /\ reqs' = r.reqs
          /\ last' = DoneNotifying(t.decision, r.res,
                                   IF r.res # 200 THEN "none"
                                   ELSE IF delivers THEN "sent" ELSE "failed")
    /\ inflight' = inflight \ {t}
    /\ UNCHANGED <<users, items, meta, shares, disk, next_item, next_req, now, fk_enforced>>

\* The INSERT of session.commit() in POST /signing/: the foreign keys are the
\* only thing the database tests.
insert_signing_request(rs, its, us, db_request) ==
    IF FkApproverViolated(us, db_request.approver_id)
       \/ (fk_enforced /\ ~HasItem(its, db_request.drive_item_id))
    THEN [res |-> 500, reqs |-> rs]
    ELSE [res |-> 200, reqs |-> rs \cup {db_request}]

\* POST /signing/ run concurrently with other requests: the role, file and
\* open-request tests of one request, then (in a later step) its INSERT.
CreateRequestChecked(u, drive_item_id, approver_id) ==
    LET us == get_current_user(users, u)
        r == create_signing_request(reqs, items, meta, us, next_req, UserRow(us, u),
                                    drive_item_id, approver_id)
        rid == CHOOSE n \in 1 .. MaxInflight : \A t \in inflight : t.rid # n
    IN /\ Cardinality(inflight) < MaxInflight
       /\ users' = us
       /\ IF r.res \in {200, 500}
          THEN /\ inflight' = inflight \cup {[rid |-> rid, kind |-> "create_request",
                                              user_id |-> u,
                                              drive_item_id |-> drive_item_id,
                                              approver_id |-> approver_id]}
               /\ last' = Done("create_signing_request_checked", 200)
          ELSE /\ inflight' = inflight
               /\ last' = Done("create_signing_request", r.res)
       /\ UNCHANGED <<items, meta, shares, reqs, disk, next_item, next_req, now, fk_enforced>>

CreateRequestCommitted(t) ==
    /\ t \in inflight /\ t.kind = "create_request"
    /\ next_req <= MaxReqs
    /\ LET r == insert_signing_request(reqs, items, users,
                    [request_id |-> next_req, drive_item_id |-> t.drive_item_id,
                     requester_id |-> t.user_id, approver_id |-> t.approver_id,
                     current_status |-> "DRAFT", admin_comment |-> NoStr,
                     approved_at |-> NULL])
       IN /\ reqs' = r.reqs
          /\ next_req' = IF r.res = 200 THEN next_req + 1 ELSE next_req
          /\ last' = Done("create_signing_request", r.res)
    /\ inflight' = inflight \ {t}
    /\ UNCHANGED <<users, items, meta, shares, disk, next_item, now, fk_enforced>>

\* Time passes between two requests.
Tick ==
    /\ now < MaxTime
    /\ now' = now + 1
    /\ last' = Done("tick", 200)
    /\ UNCHANGED <<users, items, meta, shares, reqs, disk, next_item, next_req, fk_enforced, inflight>>

Init ==
    /\ users = {}
    /\ items = {}
    /\ meta = {}
    /\ shares = <<>>
    /\ reqs = {}
    /\ disk = {}
    /\ next_item = 1
    /\ next_req = 1
    /\ now = 1
    /\ fk_enforced \in BOOLEAN
    /\ inflight = {}
    /\ last = Done("init", 200)

Mimes == {"application/pdf"}
Sizes == {7}
Usernames == {AuthData(u).username : u \in UserIds}
ApproverInputs == {NULL, 1}
\* file.content_type (possibly absent), the byte count and file.filename of a
\* class or department upload.
ContentTypes == Mimes \cup {NoStr}
FileSizes == Sizes \cup {9}
UploadNames == {"a.pdf"}

\* Course listings the directory collaborator can answer with, per semester:
\* every call failing; one course in semester 1, a failure in semester 2 and
\* empty lists after; the same course twice in semester 1.
NoCourseListing == [n \in Semesters |-> [failed |-> TRUE, names |-> <<>>]]
OneCourse ==
    [n \in Semesters |-> [failed |-> (n = 2),
                          names |-> IF n = 1 THEN <<"Python">> ELSE <<>>]]
CourseListings ==
    {NoCourseListing, OneCourse,
     [n \in Semesters |-> [failed |-> FALSE,
                           names |-> IF n = 1 THEN <<"Python", "Python">> ELSE <<>>]]}

\* Categories the identity provider can send ("lecturer" is the only one that
\* makes a TEACHER) and the assertions built from them for two accounts whose
\* username and email can change or collide.
Assertions ==
    [id : {2, 3}, username : {"lec", "stu"}, email : {"lec@x", "stu@x"},
     user_type : {"lecturer", "student", "Lecturer"}, is_admin : BOOLEAN]

Next ==
    \/ \E u \in UserIds, name \in Names, t \in ItemTypes, p \in ParentInputs :
          create_item(u, name, t, p)
    \/ \E u \in UserIds, name \in Names, p \in ParentInputs, m \in Mimes, z \in Sizes :
          upload_file(u, name, p, m, z)
    \/ \E u \in UserIds, i \in ItemIdInputs : move_item_to_trash(u, i)
    \/ \E u \in UserIds, i \in ItemIdInputs : restore_item_from_trash(u, i)
    \/ \E u \in UserIds, i \in ItemIdInputs, name \in Names \cup {NoStr}, p \in ParentInputs :
          update_item_details(u, i, name, p)
    \/ \E u \in UserIds, i \in ItemIdInputs, g \in Usernames : share_an_item(u, i, g)
    \/ \E u \in UserIds, i \in ItemIdInputs : permanently_delete_item(u, i)
    \/ \E u \in UserIds : empty_trash(u)
    \/ \E u \in UserIds, i \in ItemIdInputs : admin_delete_item(u, i)
    \/ \E u \in UserIds, i \in ItemIdInputs, a \in ApproverInputs :
          CreateSigningRequest(u, i, a)
    \/ \E u \in UserIds, r \in ReqIdInputs : SubmitSigningRequest(u, r)
    \/ \E u \in UserIds, r \in ReqIdInputs, c \in Comments, d \in BOOLEAN :
          ApproveSigningRequest(u, r, c, d)
    \/ \E u \in UserIds, r \in ReqIdInputs, c \in Comments, d \in BOOLEAN :
          RejectSigningRequest(u, r, c, d)
    \/ \E u \in UserIds, p \in ParentInputs : list_items_in_folder(u, p)
    \/ \E u \in UserIds, i \in ItemIdInputs : get_item_details(u, i)
    \/ \E u \in UserIds : get_items_shared_with_me(u)
    \/ \E u \in UserIds, info \in LecturerInfos, d \in DeptIds, p \in ParentInputs :
          ListDepartmentItems(u, info, d, p)
    \/ \E u \in UserIds, info \in LecturerInfos, d \in DeptIds, name \in Names,
          p \in ParentInputs, m \in ContentTypes, z \in FileSizes :
          UploadToDepartmentStorage(u, info, d, name, p, m, z)
    \/ \E u \in UserIds, a \in TeachingAnswers, c \in ClassIds, k \in CourseListings :
          AutoGenerateClassFolders(u, a, c, k)
    \/ \E u \in UserIds, a \in TeachingAnswers, c \in ClassIds, p \in ParentInputs :
          ListClassItems(u, a, c, p)
    \/ \E u \in UserIds, a \in TeachingAnswers, c \in ClassIds, name \in Names,
          p \in ParentInputs, m \in ContentTypes, z \in FileSizes, d \in BOOLEAN :
          UploadToClassStorage(u, a, c, name, p, m, z, d)
    \/ \E user_data \in Assertions : Authenticate(user_data)
    \/ \E u \in UserIds, i \in ItemIdInputs, g \in Usernames : ShareChecked(u, i, g)
    \/ \E t \in inflight : ShareCommitted(t)
    \/ \E u \in UserIds, a \in TeachingAnswers, c \in ClassIds : AutoGenerateChecked(u, a, c)
    \/ \E t \in inflight, k \in CourseListings : AutoGenerateCommitted(t, k)
    \/ \E u \in UserIds, r \in ReqIdInputs, c \in Comments,
          d \in {"approve_signing_request", "reject_signing_request"} :
          DecideChecked(u, r, d, c)
    \/ \E t \in inflight, d \in BOOLEAN : DecideCommitted(t, d)
    \/ \E u \in UserIds, i \in ItemIdInputs, a \in ApproverInputs :
          CreateRequestChecked(u, i, a)
    \/ \E t \in inflight : CreateRequestCommitted(t)
    \/ Tick

Spec == Init /\ [][Next]_vars

(* ------------------------------------------------ focused specifications *)
\* The whole system is Spec.  Each specification below keeps the endpoints that
\* write the columns a group of properties reads and narrows the callers, so that
\* the reachable states can be enumerated.
TreeUsers == {2, 3}
SignUsers == {1, 2}
TreeUsernames == {AuthData(u).username : u \in TreeUsers}

\* creation of items
NextCreate ==
    \/ \E u \in TreeUsers, name \in Names, t \in ItemTypes, p \in ParentInputs :
          create_item(u, name, t, p)
    \/ \E u \in TreeUsers, name \in Names, p \in ParentInputs, m \in Mimes, z \in Sizes :
          upload_file(u, name, p, m, z)
    \/ Tick

SpecCreate == Init /\ [][NextCreate]_vars

\* rename and move
NextRename ==
    \/ \E u \in TreeUsers, name \in Names, t \in ItemTypes, p \in ParentInputs :
          create_item(u, name, t, p)
    \/ \E u \in TreeUsers, i \in ItemIdInputs, name \in Names \cup {NoStr}, p \in ParentInputs :
          update_item_details(u, i, name, p)
    \/ Tick

SpecRename == Init /\ [][NextRename]_vars

\* trash and restore
NextTrash ==
    \/ \E u \in TreeUsers, name \in Names, t \in ItemTypes, p \in ParentInputs :
          create_item(u, name, t, p)
    \/ \E u \in TreeUsers, i \in ItemIdInputs : move_item_to_trash(u, i)
    \/ \E u \in TreeUsers, i \in ItemIdInputs : restore_item_from_trash(u, i)
    \/ Tick

SpecTrash == Init /\ [][NextTrash]_vars

\* permanent deletion
NextPurge ==
    \/ \E u \in SignUsers, name \in Names, p \in {NULL} \cup AllocatedIds :
          create_item(u, name, "FOLDER", p)
    \/ \E u \in SignUsers, name \in Names, p \in {NULL} \cup AllocatedIds,
          m \in Mimes, z \in Sizes :
          upload_file(u, name, p, m, z)
    \/ \E u \in SignUsers, i \in AllocatedIds : move_item_to_trash(u, i)
    \/ \E u \in SignUsers, i \in AllocatedIds, a \in {NULL} : CreateSigningRequest(u, i, a)
    \/ \E u \in SignUsers, i \in AllocatedIds : permanently_delete_item(u, i)
    \/ \E u \in SignUsers : empty_trash(u)
    \/ Tick

SpecPurge == Init /\ [][NextPurge]_vars

\* sharing
NextShare ==
    \/ \E u \in TreeUsers, name \in Names, t \in ItemTypes, p \in {NULL} :
          create_item(u, name, t, p)
    \/ \E u \in TreeUsers, i \in ItemIdInputs, g \in TreeUsernames : share_an_item(u, i, g)
    \/ \E u \in TreeUsers, i \in ItemIdInputs : move_item_to_trash(u, i)
    \/ \E u \in TreeUsers, i \in ItemIdInputs : permanently_delete_item(u, i)
    \/ Tick

SpecShare == Init /\ [][NextShare]_vars

\* reading what was created, shared and trashed
NextView ==
    \/ \E u \in TreeUsers, name \in Names, t \in ItemTypes, p \in {NULL} :
          create_item(u, name, t, p)
    \/ \E u \in TreeUsers, i \in ItemIdInputs, g \in TreeUsernames : share_an_item(u, i, g)
    \/ \E u \in TreeUsers, i \in ItemIdInputs : move_item_to_trash(u, i)
    \/ \E u \in TreeUsers, p \in {NULL} : list_items_in_folder(u, p)
    \/ \E u \in TreeUsers, i \in AllocatedIds : get_item_details(u, i)
    \/ \E u \in TreeUsers : get_items_shared_with_me(u)

SpecView == Init /\ [][NextView]_vars

\* department storage
NextDepartment ==
    \/ \E u \in {2}, name \in UploadNames, t \in {"FOLDER"}, p \in {NULL} :
          create_item(u, name, t, p)
    \/ \E u \in UserIds, info \in LecturerInfos, d \in DeptIds, p \in {NULL} :
          ListDepartmentItems(u, info, d, p)
    \/ \E u \in UserIds, info \in LecturerInfos, d \in DeptIds, name \in UploadNames,
          p \in {NULL} \cup AllocatedIds, m \in ContentTypes, z \in FileSizes :
          UploadToDepartmentStorage(u, info, d, name, p, m, z)

SpecDepartment == Init /\ [][NextDepartment]_vars

\* class storage
\* The directory collaborator fails, knows no class of the caller, or knows
\* class 1.
TeachingInputs == {a \in TeachingAnswers : a.class_ids \subseteq {1}}

NextClass ==
    \/ \E u \in UserIds, a \in TeachingInputs, c \in ClassIds, k \in CourseListings :
          AutoGenerateClassFolders(u, a, c, k)
    \/ \E u \in UserIds, a \in TeachingInputs, c \in ClassIds, p \in {NULL} :
          ListClassItems(u, a, c, p)
    \/ \E u \in UserIds, a \in TeachingInputs, c \in ClassIds, name \in UploadNames,
          p \in {NULL}, m \in Mimes, z \in Sizes, d \in BOOLEAN :
          UploadToClassStorage(u, a, c, name, p, m, z, d)
    \/ \E u \in TreeUsers, i \in {r.item_id : r \in UNION {get_class_root_folder(items, c) : c \in ClassIds}} : move_item_to_trash(u, i)

SpecClass == Init /\ [][NextClass]_vars

\* notifications
NextNotify ==
    \/ \E u \in {2}, name \in UploadNames, p \in {NULL}, m \in Mimes, z \in Sizes :
          upload_file(u, name, p, m, z)
    \/ \E u \in {2}, i \in AllocatedIds, a \in {NULL} : CreateSigningRequest(u, i, a)
    \/ \E u \in {2}, r \in ReqIdInputs : SubmitSigningRequest(u, r)
    \/ \E u \in SignUsers, r \in ReqIdInputs, c \in Comments, d \in BOOLEAN :
          ApproveSigningRequest(u, r, c, d)
    \/ \E u \in SignUsers, r \in ReqIdInputs, c \in Comments, d \in BOOLEAN :
          RejectSigningRequest(u, r, c, d)
    \/ \E u \in SignUsers, a \in TeachingInputs, c \in {1}, name \in UploadNames,
          p \in {NULL}, m \in Mimes, z \in Sizes, d \in BOOLEAN :
          UploadToClassStorage(u, a, c, name, p, m, z, d)

SpecNotify == Init /\ [][NextNotify]_vars

\* identity sync
NextIdentity ==
    \/ \E user_data \in Assertions : Authenticate(user_data)

SpecIdentity == Init /\ [][NextIdentity]_vars

\* concurrent requests colliding on a unique constraint
NextRace ==
    \/ \E u \in TreeUsers, name \in Names, t \in ItemTypes, p \in ParentInputs :
          create_item(u, name, t, p)
    \/ \E u \in TreeUsers, i \in AllocatedIds, g \in TreeUsernames : ShareChecked(u, i, g)
    \/ \E t \in inflight : ShareCommitted(t)
    \/ Tick

SpecRace == Init /\ [][NextRace]_vars

\* requests that change several rows
\* The ids that are trashed and purged: the first ones allocated.
FirstIds == AllocatedIds \cap (1 .. MaxItems + 1)

NextAtomic ==
    \/ \E u \in {1}, name \in Names, p \in {NULL} \cup AllocatedIds :
          create_item(u, name, "FOLDER", p)
    \/ \E u \in {1}, name \in Names, p \in {NULL} \cup AllocatedIds, m \in {"text/plain"}, z \in {7} :
          upload_file(u, name, p, m, z)
    \/ \E u \in {1}, i \in FirstIds : move_item_to_trash(u, i)
    \/ \E u \in {1}, i \in FirstIds : permanently_delete_item(u, i)
    \/ \E u \in {1} : empty_trash(u)
    \/ \E u \in {1}, a \in {[failed |-> TRUE, class_ids |-> {}]}, c \in {1}, k \in CourseListings :
          AutoGenerateClassFolders(u, a, c, k)

SpecAtomic == Init /\ [][NextAtomic]_vars

\* creation of signing requests by every role on files and folders
NextRequest ==
    \/ \E u \in UserIds, name \in Names, t \in ItemTypes, p \in {NULL} :
          create_item(u, name, t, p)
    \/ \E u \in UserIds, name \in Names, p \in {NULL}, m \in {"application/pdf"}, z \in {7} :
          upload_file(u, name, p, m, z)
    \/ \E u \in UserIds, i \in ItemIdInputs, a \in {NULL} : CreateSigningRequest(u, i, a)
    \/ \E u \in UserIds, r \in ReqIdInputs : SubmitSigningRequest(u, r)

SpecRequest == Init /\ [][NextRequest]_vars

\* owner purge and admin purge of folders that were moved
NextAdminPurge ==
    \/ \E u \in {2}, name \in Names, p \in {NULL} : create_item(u, name, "FOLDER", p)
    \/ \E u \in {2}, i \in AllocatedIds, p \in AllocatedIds : update_item_details(u, i, NoStr, p)
    \/ \E u \in SignUsers, i \in AllocatedIds : move_item_to_trash(u, i)
    \/ \E u \in SignUsers, i \in ItemIdInputs : permanently_delete_item(u, i)
    \/ \E u \in SignUsers, i \in ItemIdInputs : admin_delete_item(u, i)
    \/ Tick

SpecAdminPurge == Init /\ [][NextAdminPurge]_vars

\* emptying the trash of trees that two users built
NextEmptyTrash ==
    \/ \E u \in TreeUsers, name \in Names, t \in ItemTypes, p \in {NULL} \cup AllocatedIds :
          create_item(u, name, t, p)
    \/ \E u \in TreeUsers, i \in AllocatedIds : move_item_to_trash(u, i)
    \/ \E u \in TreeUsers : empty_trash(u)

SpecEmptyTrash == Init /\ [][NextEmptyTrash]_vars

\* items of an owner whose role changes
\* The assertions that change nothing but the role of account 2, and the one
\* that makes account 3 known as a grantee.
NextOwnerType ==
    \/ \E user_data \in {a \in Assertions : (a.username = AuthData(a.id).username)
                                           /\ (a.email = AuthData(a.id).email)
                                           /\ (a.id = 2 \/ a = AuthData(3))} :
          Authenticate(user_data)
    \/ \E u \in {2}, name \in Names, t \in ItemTypes, p \in {NULL} :
          create_item(u, name, t, p)
    \/ \E u \in {2}, i \in AllocatedIds, name \in {"b.txt"}, p \in {NULL} \cup AllocatedIds :
          update_item_details(u, i, name, p)
    \/ \E u \in {2}, i \in AllocatedIds : move_item_to_trash(u, i)
    \/ \E u \in {2}, i \in AllocatedIds : restore_item_from_trash(u, i)
    \/ \E u \in {2}, i \in AllocatedIds, g \in {"stu"} : share_an_item(u, i, g)

SpecOwnerType == Init /\ [][NextOwnerType]_vars

\* concurrent auto-generations
NextGenerateRace ==
    \/ \E u \in SignUsers, a \in TeachingInputs, c \in ClassIds : AutoGenerateChecked(u, a, c)
    \/ \E t \in inflight, k \in {NoCourseListing, OneCourse} : AutoGenerateCommitted(t, k)

SpecGenerateRace == Init /\ [][NextGenerateRace]_vars

\* an approve and a reject of one request in flight together
NextDecideRace ==
    \/ \E name \in {"a.pdf"}, m \in {"application/pdf"}, z \in Sizes :
          upload_file(2, name, NULL, m, z)
    \/ \E i \in AllocatedIds, a \in {NULL} : CreateSigningRequest(2, i, a)
    \/ \E r \in ReqIdInputs : SubmitSigningRequest(2, r)
    \/ \E u \in {1}, r \in ReqIdInputs, c \in {"ok", "no"},
          d \in {"approve_signing_request", "reject_signing_request"} :
          DecideChecked(u, r, d, c)
    \/ \E t \in inflight, d \in {TRUE} : DecideCommitted(t, d)

SpecDecideRace == Init /\ [][NextDecideRace]_vars

\* two creations of a request for one file in flight together
NextCreateRace ==
    \/ \E u \in SignUsers, name \in {"a.pdf", "b.txt"}, m \in Mimes, z \in Sizes :
          upload_file(u, name, NULL, m, z)
    \/ \E u \in SignUsers, i \in ItemIdInputs, a \in ApproverInputs :
          CreateRequestChecked(u, i, a)
    \/ \E t \in inflight : CreateRequestCommitted(t)

SpecCreateRace == Init /\ [][NextCreateRace]_vars

\* the personal-drive operations sent by somebody who is not the owner
NextForeign ==
    \/ \E name \in {"b.txt"}, t \in {"FOLDER"} : create_item(2, name, t, NULL)
    \/ \E m \in Mimes, z \in Sizes : upload_file(2, "a.pdf", NULL, m, z)
    \/ \E u \in UserIds, i \in AllocatedIds : move_item_to_trash(u, i)
    \/ \E u \in UserIds, i \in AllocatedIds : restore_item_from_trash(u, i)
    \/ \E u \in UserIds, i \in AllocatedIds : update_item_details(u, i, "b.txt", NULL)
    \/ \E u \in UserIds, i \in AllocatedIds, g \in Usernames : share_an_item(u, i, g)
    \/ \E u \in UserIds, i \in AllocatedIds : permanently_delete_item(u, i)

SpecForeign == Init /\ [][NextForeign]_vars

\* the signing workflow
NextSigning ==
    \/ \E u \in SignUsers, name \in Names, p \in {NULL}, m \in Mimes, z \in Sizes :
          upload_file(u, name, p, m, z)
    \/ \E u \in SignUsers, i \in ItemIdInputs, a \in ApproverInputs :
          CreateSigningRequest(u, i, a)
    \/ \E u \in SignUsers, r \in ReqIdInputs : SubmitSigningRequest(u, r)
    \/ \E u \in SignUsers, r \in ReqIdInputs, c \in Comments, d \in {TRUE} :
          ApproveSigningRequest(u, r, c, d)
    \/ \E u \in SignUsers, r \in ReqIdInputs, c \in Comments, d \in {TRUE} :
          RejectSigningRequest(u, r, c, d)
    \/ Tick

SpecSigning == Init /\ [][NextSigning]_vars

(* ------------------------------------------------------------ properties *)
OwnedBy(u) == {r \in items : r.owner_id = u}

\* C1: no two items share (owner_id, parent_id, name), the root (parent_id
\* NULL) included: a second create or upload with the same triple is refused and
\* adds no row.
C1_UniqueSiblingNames ==
    \A a, b \in items :
        (a.owner_id = b.owner_id /\ a.parent_id = b.parent_id /\ a.name = b.name)
            => a.item_id = b.item_id

\* C2: a rename or move by the owner whose target (parent, name) differs from
\* the item's own and is held by another item of the same owner is answered 409
\* and leaves every row (name, parent_id and updated_at of both items included)
\* as it was.
C2_OccupiedTargetRefused ==
    \A u \in TreeUsers : \A db_item \in OwnedBy(u), name \in Names \cup {NoStr},
       parent_id \in ParentInputs :
        LET new_name == IF name # NoStr THEN name ELSE db_item.name
            new_parent_id == IF parent_id # NULL THEN parent_id ELSE db_item.parent_id
            r == update_drive_item(items, db_item.item_id, u, name, parent_id, now)
        IN (/\ new_name # db_item.name \/ new_parent_id # db_item.parent_id
            /\ \E other \in OwnedBy(u) :
                  /\ other.item_id # db_item.item_id
                  /\ other.parent_id = new_parent_id
                  /\ other.name = new_name)
           => r.res = 409 /\ r.items = items

\* A rename was just refused with 409 although foreign keys are not enforced (so
\* the refusal is the name check's), after the clock moved past a row's updated_at.
C2_Witness ==
    /\ last.op = "update_item_details"
    /\ last.res = 409
    /\ ~fk_enforced
    /\ \E r \in items : r.updated_at # NULL /\ r.updated_at < now

\* The row of item i after the owner u trashes it now and restores it at t2.
TrashThenRestore(u, i, t2) ==
    ItemRow(restore_item(trash_item(items, i, u, now).items, i, u, t2).items, i)

\* C3 as stated: trash followed by restore gives the item back equal on every
\* field other than is_trashed and trashed_at (updated_at included), with
\* is_trashed false and trashed_at null.
C3_RoundTripKeepsUpdatedAt ==
    \A u \in TreeUsers : \A db_item \in OwnedBy(u), t2 \in now .. MaxTime :
        ~db_item.is_trashed =>
            LET row == TrashThenRestore(u, db_item.item_id, t2)
            IN /\ row.is_trashed = FALSE
               /\ row.trashed_at = NULL
               /\ [row EXCEPT !.is_trashed = db_item.is_trashed,
                              !.trashed_at = db_item.trashed_at] = db_item

\* C3 amended: trash followed by restore by the owner succeeds and gives the
\* item back equal on every field other than is_trashed, trashed_at and
\* updated_at, with is_trashed false, trashed_at null and updated_at the time of
\* the restore; no other row changes.
C3_RoundTrip ==
    \A u \in TreeUsers : \A db_item \in OwnedBy(u), t2 \in now .. MaxTime :
        ~db_item.is_trashed =>
            LET a == trash_item(items, db_item.item_id, u, now)
                b == restore_item(a.items, db_item.item_id, u, t2)
                row == TrashThenRestore(u, db_item.item_id, t2)
            IN /\ a.res = 200
               /\ b.res = 200
               /\ row.is_trashed = FALSE
               /\ row.trashed_at = NULL
               /\ row.updated_at = t2
               /\ [row EXCEPT !.is_trashed = db_item.is_trashed,
                              !.trashed_at = db_item.trashed_at,
                              !.updated_at = db_item.updated_at] = db_item
               /\ b.items \ {row} = items \ {db_item}

\* An item was just restored from the trash.
C3_Witness ==
    /\ last.op = "restore_item_from_trash"
    /\ last.res = 200
    /\ \E r \in items : ~r.is_trashed /\ r.updated_at # NULL

\* C4: trash on an item already in the trash and restore on an item not in the
\* trash are answered 400 and change no row (is_trashed and trashed_at stay).
C4_WrongStateRejected ==
    \A u \in TreeUsers : \A db_item \in OwnedBy(u) :
        LET a == trash_item(items, db_item.item_id, u, now)
            b == restore_item(items, db_item.item_id, u, now)
        IN /\ db_item.is_trashed => (a.res = 400 /\ a.items = items)
           /\ ~db_item.is_trashed => (b.res = 400 /\ b.items = items)

\* A trash request was just refused for an item trashed at an earlier time.
C4_Witness ==
    /\ last.op = "move_item_to_trash"
    /\ last.res = 400
    /\ \E r \in items : r.is_trashed /\ r.trashed_at < now

\* C5: after the purge of a trashed FOLDER the folder and all its descendants
\* are gone, the file_metadata row and the stored payload of every descendant
\* FILE are gone, and no row of drive_items (parent_id), file_metadata,
\* share_permissions or signing_requests names a deleted id.
C5_PurgeRemovesSubtree ==
    [][\A db_item \in items :
          (/\ last'.op = "permanently_delete_item"
           /\ last'.res = 204
           /\ db_item.item_type = "FOLDER"
           /\ db_item.is_trashed
           /\ ~HasItem(items', db_item.item_id)) =>
              LET D == Subtree(items, {db_item.item_id})
              IN /\ \A r \in items' : r.item_id \notin D /\ r.parent_id \notin D
                 /\ \A m \in meta' : m.item_id \notin D
                 /\ \A m \in meta : m.item_id \in D => m.storage_path \notin disk'
                 /\ \A k \in 1 .. Len(shares') : shares'[k].item_id \notin D
                 /\ \A q \in reqs' : q.drive_item_id \notin D
      ]_vars

\* The caller u as the handler sees it, after the get_current_user dependency.
CurrentUser(u) == UserRow(get_current_user(users, u), u)

\* C6: approve or reject of a request that is DRAFT, APPROVED or REJECTED is
\* answered 400 to an administrator and leaves the request (current_status,
\* approver_id, approved_at, admin_comment) as it was, whoever calls.
C6_NonPendingRefused ==
    \A q \in reqs, c \in Comments, u \in SignUsers, d \in BOOLEAN :
        q.current_status # "PENDING" =>
            LET a == approve_signing_request(reqs, CurrentUser(u), q.request_id, c, now, d)
                b == reject_signing_request(reqs, CurrentUser(u), q.request_id, c, d)
            IN /\ a.reqs = reqs
               /\ b.reqs = reqs
               /\ CurrentUser(u).role = "ADMIN" => (a.res = 400 /\ b.res = 400)

\* An approve or reject was just refused with 400 while a request is in a
\* terminal state.
C6_Witness ==
    /\ last.op \in {"approve_signing_request", "reject_signing_request"}
    /\ last.res = 400
    /\ \E q \in reqs : q.current_status \in {"APPROVED", "REJECTED"}

\* C7: a request is created DRAFT and its status only ever changes DRAFT ->
\* PENDING, PENDING -> APPROVED or PENDING -> REJECTED; APPROVED and REJECTED
\* never change.
C7_OnlyLegalTransitions ==
    [][/\ \A q \in reqs : \A q2 \in reqs' :
            q2.request_id = q.request_id =>
                \/ q2.current_status = q.current_status
                \/ <<q.current_status, q2.current_status>>
                      \in {<<"DRAFT", "PENDING">>, <<"PENDING", "APPROVED">>,
                           <<"PENDING", "REJECTED">>}
       /\ \A q2 \in reqs' :
            (\A q \in reqs : q.request_id # q2.request_id) => q2.current_status = "DRAFT"
      ]_vars

\* One request was approved and another rejected.
C7_Witness ==
    /\ \E q \in reqs : q.current_status = "APPROVED"
    /\ \E q \in reqs : q.current_status = "REJECTED"
    /\ last.op \in {"approve_signing_request", "reject_signing_request"}
    /\ last.res = 200

\* C8: a file has at most one request in DRAFT or PENDING, and a create for a
\* file with an open request, sent again by that request's requester, is
\* answered 409 and adds no request.
C8_SecondOpenRequestConflicts ==
    /\ \A q1, q2 \in reqs :
          (/\ q1.drive_item_id = q2.drive_item_id
           /\ q1.current_status \in OpenStatuses
           /\ q2.current_status \in OpenStatuses) => q1 = q2
    /\ \A q \in reqs, a \in ApproverInputs :
          q.current_status \in OpenStatuses =>
              LET r == create_signing_request(reqs, items, meta,
                          get_current_user(users, q.requester_id), next_req,
                          CurrentUser(q.requester_id), q.drive_item_id, a)
              IN r.res = 409 /\ r.reqs = reqs

\* C9: a share with the owner's own username is answered 400, a share with a
\* user who already holds a grant on the item is answered 409, neither adds a
\* row nor changes the item; no two grants have the same (item, grantee) and no
\* grant names the item's owner.
C9_NoSelfNoDuplicateShare ==
    /\ \A j, k \in 1 .. Len(shares) :
          (/\ shares[j].item_id = shares[k].item_id
           /\ shares[j].shared_with_user_id = shares[k].shared_with_user_id) => j = k
    /\ \A k \in 1 .. Len(shares) : \A r \in items :
          r.item_id = shares[k].item_id => shares[k].shared_with_user_id # r.owner_id
    /\ \A r \in items :
          LET o == share_item(items, shares, get_current_user(users, r.owner_id),
                              r.item_id, r.owner_id, AuthData(r.owner_id).username, now)
          IN o.res = 400 /\ o.shares = shares /\ o.items = items
    /\ \A k \in 1 .. Len(shares) : \A r \in items :
          r.item_id = shares[k].item_id =>
              LET o == share_item(items, shares, get_current_user(users, r.owner_id),
                                  r.item_id, r.owner_id,
                                  AuthData(shares[k].shared_with_user_id).username, now)
              IN o.res = 409 /\ o.shares = shares /\ o.items = items

\* A share was just refused as a duplicate.
C9_Witness ==
    /\ last.op = "share_an_item"
    /\ last.res = 409
    /\ Len(shares) > 0

\* C10: an item's permission is SHARED exactly when share_permissions holds a
\* row for it (PRIVATE from creation, SHARED from the first successful share),
\* and a share that is refused changes no item.
C10_SharedIffGranted ==
    /\ \A r \in items :
          r.permission = "SHARED" <=> \E k \in 1 .. Len(shares) : shares[k].item_id = r.item_id
    /\ \A r \in items : r.permission \in {"PRIVATE", "SHARED"}
    /\ \A u \in TreeUsers, i \in ItemIdInputs, g \in TreeUsernames :
          LET o == share_item(items, shares, get_current_user(users, u), i, u, g, now)
          IN o.res # 200 => o.items = items

\* A first share just succeeded: one item is SHARED, another still PRIVATE.
C10_Witness ==
    /\ last.op = "share_an_item"
    /\ last.res = 200
    /\ \E r \in items : r.permission = "SHARED"
    /\ \E r \in items : r.permission = "PRIVATE"

Granted(i, u) ==
    \E k \in 1..Len(shares) : shares[k].item_id = i /\ shares[k].shared_with_user_id = u

\* C11: fetching a row by id answers 200 for its owner whether or not the row
\* is trashed, and for anybody else exactly when the row is not trashed and a
\* share row grants it to the caller; a trashed row is in neither its owner's
\* folder listing nor any grantee's shared-with-me listing, while the owner
\* still gets it back with is_trashed set.
C11_TrashHidesFromOthers ==
    \A r \in items : \A u \in UserIds :
        LET s == get_drive_item(items, shares, r.item_id, u)
        IN /\ u = r.owner_id => s = 200 /\ ItemRow(items, r.item_id) = r
           /\ u # r.owner_id => (s = 200 <=> ~r.is_trashed /\ Granted(r.item_id, u))
           /\ r.is_trashed =>
                 /\ r \notin get_user_items_in_folder(items, r.owner_id, r.parent_id)
                 /\ r \notin get_shared_with_me_items(items, shares, u)

\* A grantee asked for a shared row its owner had trashed and got 404.
C11_Witness ==
    /\ last = Done("get_item_details", 404)
    /\ \E r \in items : \E u \in UserIds :
          r.is_trashed /\ u # r.owner_id /\ Granted(r.item_id, u)

\* C12: a personal upload answered 201 adds exactly one row, a FILE that its
\* owner's listing of the target folder contains, with process_status READY.
C12_UploadedFileIsReady ==
    [][last'.op = "upload_file" /\ last'.res = 201 =>
          \E r \in items' \ items :
             /\ items' \ items = {r}
             /\ r.item_type = "FILE"
             /\ r \in get_user_items_in_folder(items', r.owner_id, r.parent_id)
             /\ r.process_status = "READY"]_vars

\* C17: every row with a parent has a parent row, and that row is a FOLDER.
C17_ParentIsExistingFolder ==
    \A r \in items :
        r.parent_id # NULL =>
            \E p \in items : p.item_id = r.parent_id /\ p.item_type = "FOLDER"

\* C18: no row is its own ancestor: a move of a folder under itself or under
\* one of its descendants never gets through.
C18_ParentRelationAcyclic ==
    \A r \in items : ~OnCycle(items, r.item_id)

\* The lecturers, by the role the identity sync derives for them.
Teachers == {u \in UserIds : map_role(AuthData(u).user_type, AuthData(u).is_admin) = "TEACHER"}

\* Assertions that name a department.
WithDepartment == {info \in LecturerInfos : info.present /\ info.department_id # NULL}

\* The answer to a department upload by u in the current state.
DepartmentUpload(u, info, d, name, p, m, z) ==
    upload_to_department_storage(items, meta, disk, next_item,
                                 UserRow(get_current_user(users, u), u),
                                 get_current_user_data_from_token(u, info),
                                 d, name, p, m, z)

\* The upload added exactly one row and its metadata, as asked.
OneDepartmentFile(r, u, d, name, p, mime, z) ==
    /\ r.disk = disk \cup {next_item}
    /\ \E x \in r.items \ items :
          /\ r.items = items \cup {x}
          /\ x.item_type = "FILE" /\ x.name = name /\ x.parent_id = p /\ x.owner_id = u
          /\ x.repository_type = "DEPARTMENT" /\ x.repository_context_id = d
          /\ \E y \in r.meta \ meta :
                /\ r.meta = meta \cup {y}
                /\ y.item_id = x.item_id /\ y.mime_type = mime /\ y.size = z

C14_DepartmentPermissionCheck ==
    [][last'.op \in {"list_department_items", "upload_to_department_storage"} =>
          LET role == UserRow(users', last'.user_id).role
          IN /\ role = "ADMIN" => last'.res \notin {400, 403}
             /\ role = "STUDENT" => last'.res = 403
             /\ role = "TEACHER" /\ last'.lecturer_dept_id = NULL => last'.res = 400
             /\ last'.res \in {400, 403} => UNCHANGED <<items, meta, shares, reqs, disk>>
      ]_vars

\* With department rows in the table, a lecturer whose assertion names no
\* department was refused an upload.
C14_Witness ==
    /\ last.op = "upload_to_department_storage" /\ last.res = 400
    /\ last.user_id \in Teachers /\ last.lecturer_dept_id = NULL
    /\ \E x \in items : x.repository_type = "DEPARTMENT"

\* C15: an auto-generation for a class whose root folder exists, by a caller
\* the permission check lets through, is answered 409 and leaves the item
\* table as it was.
C15_SecondGenerationConflicts ==
    [][/\ last'.op = "auto_generate_class_folders"
       /\ get_class_root_folder(items, last'.class_id) # {}
       /\ last'.res # 403
       => last'.res = 409 /\ items' = items]_vars

\* C16: a trash, purge or empty-trash request of a user who is not an
\* administrator leaves every locked, non-trashed row in the table, still not
\* trashed.
C16_LockedItemsStay ==
    [][/\ last'.op \in {"move_item_to_trash", "permanently_delete_item", "empty_trash"}
       /\ \A u \in users' : u.role # "ADMIN"
       => \A r \in items :
             r.is_locked /\ ~r.is_trashed =>
                \E r2 \in items' : r2.item_id = r.item_id /\ ~r2.is_trashed]_vars

\* C19: a class upload or auto-generation is answered 200 only to an ADMIN or
\* to a TEACHER for whom the directory collaborator answered, without failing,
\* with a list that contains the class; everybody else, a TEACHER whose check
\* failed included, is answered 403 and the item table stays as it was; a class
\* listing is answered 200 to every caller.
C19_ClassWritesNeedConfirmedTeacher ==
    [][LET role == UserRow(users', last'.user_id).role
           confirmed == ~last'.answer.failed /\ last'.class_id \in last'.answer.class_ids
           entitled == role = "ADMIN" \/ (role = "TEACHER" /\ confirmed)
       IN /\ last'.op \in {"upload_to_class_storage", "auto_generate_class_folders"} =>
                /\ last'.res = 200 => entitled
                /\ ~entitled => last'.res = 403 /\ items' = items /\ meta' = meta
          /\ last'.op = "list_class_items" => last'.res = 200
      ]_vars

\* With class folders in the table, a lecturer's upload was refused because
\* the teaching check could not be completed.
C19_Witness ==
    /\ last.op = "upload_to_class_storage" /\ last.res = 403
    /\ last.user_id \in Teachers /\ last.answer.failed
    /\ \E r \in items : r.repository_type = "CLASS" /\ r.repository_context_id = last.class_id

\* C20: whether the notification collaborator delivers or fails, approve and
\* reject answer the same and write the same rows; and a request whose
\* notification failed was answered 200 with its write in place: the request
\* APPROVED or REJECTED, or the uploaded class file with its metadata and payload.
C20_NotificationFailureChangesNothing ==
    [][/\ \A u \in SignUsers : \A q \in reqs : \A c \in Comments :
             LET ok == approve_signing_request(reqs, CurrentUser(u), q.request_id, c, now, TRUE)
                 ko == approve_signing_request(reqs, CurrentUser(u), q.request_id, c, now, FALSE)
             IN ok.res = ko.res /\ ok.reqs = ko.reqs
       /\ last'.op \in {"approve_signing_request", "reject_signing_request",
                        "upload_to_class_storage"}
          /\ last'.notification = "failed"
          => /\ last'.res = 200
             /\ last'.op = "approve_signing_request" =>
                   \E q \in reqs' \ reqs : q.current_status = "APPROVED"
             /\ last'.op = "reject_signing_request" =>
                   \E q \in reqs' \ reqs : q.current_status = "REJECTED"
             /\ last'.op = "upload_to_class_storage" =>
                   \E x \in items' \ items :
                      /\ x.repository_type = "CLASS" /\ x.item_type = "FILE"
                      /\ \E y \in meta' \ meta :
                            y.item_id = x.item_id /\ y.storage_path \in disk'
      ]_vars

\* With a class file uploaded and a request rejected, an approval whose
\* notification failed was answered 200.
C20_Witness ==
    /\ last.op = "approve_signing_request" /\ last.res = 200
    /\ last.notification = "failed"
    /\ \E q \in reqs : q.current_status = "REJECTED"
    /\ \E q \in reqs : q.current_status = "APPROVED"
    /\ \E x \in items : x.repository_type = "CLASS" /\ HasMeta(meta, x.item_id)

\* C21: the role a sync stores depends on the assertion's admin flag and
\* category only: ADMIN when the flag is set, whatever the category; otherwise
\* TEACHER when the category is exactly "lecturer"; otherwise STUDENT.
C21_RoleFromFlagAndCategory ==
    [][last'.op = "get_current_user" /\ last'.res = 200 =>
          LET d == last'.user_data
              role == UserRow(users', d.id).role
          IN /\ d.is_admin => role = "ADMIN"
             /\ ~d.is_admin /\ d.user_type = "lecturer" => role = "TEACHER"
             /\ ~d.is_admin /\ d.user_type # "lecturer" => role = "STUDENT"
      ]_vars

\* An assertion with the admin flag and the category "lecturer" was synced.
C21_Witness ==
    /\ last.op = "get_current_user" /\ last.res = 200
    /\ last.user_data.is_admin /\ last.user_data.user_type = "lecturer"

\* C22: after a sync answered 200 there is exactly one users row of the
\* assertion's id, with the assertion's username, email and derived role; the
\* same assertion synced again answers 200, leaves the table as it is, has
\* nothing to write and returns the same row; and no sync removes a row or
\* changes the row of another id.
C22_SyncIsIdempotentUpsert ==
    [][last'.op = "get_current_user" =>
          LET d == last'.user_data
              again == sync_user(users', d)
          IN /\ last'.res = 200 =>
                  /\ \E r \in users' :
                        /\ \A r2 \in users' : r2.user_id = d.id => r2 = r
                        /\ r.user_id = d.id
                        /\ r.username = d.username /\ r.email = d.email
                        /\ r.role = map_role(d.user_type, d.is_admin)
                  /\ again.res = 200 /\ again.users = users' /\ ~again.wrote
                  /\ UserRow(again.users, d.id) = UserRow(users', d.id)
             /\ \A r \in users :
                  /\ \E r2 \in users' : r2.user_id = r.user_id
                  /\ r.user_id # d.id => r \in users'
             /\ ~last'.wrote => users' = users
      ]_vars

\* With two users synced, a sync of an unchanged assertion wrote nothing.
C22_Witness ==
    /\ last.op = "get_current_user" /\ last.res = 200 /\ ~last.wrote
    /\ Cardinality(users) = 2


C24_PayloadIffMetadata ==
    /\ \A m1, m2 \in meta : m1.storage_path = m2.storage_path => m1 = m2
    /\ disk = {m.storage_path : m \in meta}


\* C25: of two requests racing to insert rows that collide on a unique
\* constraint exactly one commits, and the other is answered 409 and leaves no
\* row: here, a share request whose commit finds that the grant it is about
\* to insert was committed by another request after its own check.
C25_RaceLoserGetsConflict ==
    [][\A t \in inflight :
          (/\ last'.op = "share_an_item"
           /\ inflight' = inflight \ {t}
           /\ UqItemSharedUserViolated(shares, t.db_share)) =>
              last'.res = 409 /\ shares' = shares /\ items' = items
      ]_vars


\* C26: an auto-generation that passed the permission check and found no root
\* is not aborted by a failure to obtain or to create the course folders of a
\* semester: it answers 200 and the root, the information folder and the four
\* semester folders of the class are committed.
C26_CourseFailureDoesNotAbort ==
    [][(/\ last'.op = "auto_generate_class_folders"
        /\ last'.res \notin {400, 403}) =>
           /\ last'.res = 200
           /\ \E root \in get_class_root_folder(items', last'.class_id) :
                 \A name \in {InfoFolderName} \cup {SemesterName(n) : n \in Semesters} :
                    \E r \in items' : /\ r.parent_id = root.item_id
                                      /\ r.name = name
                                      /\ r.repository_context_id = last'.class_id
      ]_vars


\* The ids of the rows a step removed from drive_items.
DeletedIds == {r.item_id : r \in items} \ {r.item_id : r \in items'}

NoRowChanged == items' = items /\ meta' = meta /\ shares' = shares /\ reqs' = reqs

C30_PurgeGuards ==
    /\ \A u \in UserIds, i \in ItemIdInputs :
          ~get_trashed_item_for_owner(items, i, u) =>
             delete_item_permanently(items, meta, shares, reqs, disk, i, u)
                = {[res |-> 404, items |-> items, meta |-> meta, shares |-> shares,
                    reqs |-> reqs, disk |-> disk]}
    /\ \A i \in ItemIdInputs :
          HasItem(items, i) =>
             \A o \in admin_delete_item_permanently(items, meta, shares, reqs, i) :
                o.res = 200 /\ ~HasItem(o.items, i)


\* C31: after an emptying of the trash answered 204 no trashed item of that
\* owner is left, wherever the item sat in the tree; and every item that is
\* not in the subtree of a trashed item of the owner is left as it was.
C31_EmptyTrashLeavesNoTrashedItem ==
    \A u \in TreeUsers :
       \A o \in empty_user_trash(items, meta, shares, reqs, disk, u) :
          o.res = 204 =>
             LET trashed == {r.item_id : r \in {x \in items : x.owner_id = u /\ x.is_trashed}}
             IN /\ \A r \in o.items : ~(r.owner_id = u /\ r.is_trashed)
                /\ \A r \in items : r.item_id \notin Subtree(items, trashed) => r \in o.items


C33_UnresolvedParentIsNotFound ==
    \A u \in TreeUsers, name \in Names, t \in ItemTypes, p \in ParentInputs \ {NULL} :
       ~(\E r \in items : r.item_id = p /\ (r.owner_id = u \/ Granted(p, u))) =>
          LET owner == UserRow(get_current_user(users, u), u)
              a == create_drive_item(items, next_item, name, t, p, owner)
              b == create_file_with_metadata(items, meta, next_item, owner, name, p,
                                             "text/plain", 1, next_item)
          IN /\ a.res = 404 /\ a.items = items
             /\ b.res = 404 /\ b.items = items /\ b.meta = meta


\* C34: a row gets its owner_type when it is created, from the role its owner
\* has then (ADMIN to ADMIN, TEACHER to LECTURER, STUDENT to STUDENT), and no
\* later step changes it: not an identity sync that changes the owner's role,
\* and not a rename, move, trash, restore or share.
C34_OwnerTypeFixedAtCreation ==
    [][/\ \A r \in items : \A r2 \in items' :
             r2.item_id = r.item_id => r2.owner_type = r.owner_type
       /\ \A new \in items' :
             (\A r \in items : r.item_id # new.item_id) =>
                LET role == UserRow(users', new.owner_id).role
                IN /\ role = "ADMIN" => new.owner_type = "ADMIN"
                   /\ role = "TEACHER" => new.owner_type = "LECTURER"
                   /\ role = "STUDENT" => new.owner_type = "STUDENT"
      ]_vars

\* An identity sync has just made the owner of a LECTURER item an ADMIN.
C34_Witness ==
    /\ last.op = "get_current_user" /\ last.res = 200
    /\ \E r \in items : /\ r.owner_type = "LECTURER"
                        /\ r.updated_at # NULL
                        /\ UserRow(users, r.owner_id).role = "ADMIN"


\* C35: however auto-generations of one class interleave, at most one root
\* folder of the class exists, and a request that commits after another one
\* created the root is answered 409 and leaves no folder of its own.
C35_OneRootPerClass ==
    /\ [](\A c \in ClassIds : Cardinality(get_class_root_folder(items, c)) <= 1)
    /\ [][\A t \in inflight :
             (/\ t.kind = "auto_generate"
              /\ inflight' = inflight \ {t}
              /\ get_class_root_folder(items, t.class_id) # {}) =>
                 last'.res = 409 /\ items' = items
        ]_vars


\* C36: however an approve and a reject of one PENDING request interleave,
\* exactly one takes effect: a decision that commits after the request left
\* PENDING is answered 400 and changes nothing, and in every state approved_at
\* is set exactly when the status is APPROVED.
C36_OneDecisionTakesEffect ==
    /\ [](\A q \in reqs : (q.approved_at # NULL) <=> (q.current_status = "APPROVED"))
    /\ [][\A t \in inflight :
             (/\ t.kind = "decide"
              /\ inflight' = inflight \ {t}
              /\ HasReq(reqs, t.loaded.request_id)
              /\ ReqRow(reqs, t.loaded.request_id).current_status # "PENDING") =>
                 last'.res = 400 /\ reqs' = reqs
        ]_vars

\* C37: however creations of a request for one file interleave, no file has
\* two open (DRAFT or PENDING) requests.
C37_OneOpenRequestPerFile ==
    \A q1 \in reqs, q2 \in reqs :
        (/\ q1.drive_item_id = q2.drive_item_id
         /\ q1.current_status \in OpenStatuses
         /\ q2.current_status \in OpenStatuses) => q1 = q2


\* C38: a trashed item keeps its (owner_id, parent_id, name) slot: creating an
\* item of the same owner with that parent and name is answered 409, renaming
\* or moving another item of the owner into the slot is answered 409, and no
\* two items that are not trashed share owner, parent and name.
C38_TrashedItemKeepsSlot ==
    /\ \A r \in items : r.is_trashed =>
          \A t \in ItemTypes :
              create_drive_item(items, next_item, r.name, t, r.parent_id,
                                UserRow(users, r.owner_id)).res = 409
    /\ \A r \in items, o \in items, name \in Names \cup {NoStr}, p \in ParentInputs :
          (/\ r.is_trashed
           /\ o.owner_id = r.owner_id
           /\ o.item_id # r.item_id
           /\ <<o.parent_id, o.name>> # <<r.parent_id, r.name>>
           /\ (IF name # NoStr THEN name ELSE o.name) = r.name
           /\ (IF p # NULL THEN p ELSE o.parent_id) = r.parent_id) =>
              update_drive_item(items, o.item_id, o.owner_id, name, p, now).res = 409
    /\ \A r \in items, o \in items :
          (/\ ~r.is_trashed /\ ~o.is_trashed
           /\ r.owner_id = o.owner_id
           /\ r.parent_id = o.parent_id
           /\ r.name = o.name) => r = o


\* C39: a rename or move never sets parent_id to NULL: after any request an
\* item has a NULL parent only if it had one before, a request without a
\* parent_id (or with a null one) leaves the parent as it was, and no other
\* row is touched.
C39_NullParentKeepsParent ==
    \A r \in items, name \in Names \cup {NoStr}, p \in ParentInputs :
        LET a == update_drive_item(items, r.item_id, r.owner_id, name, p, now)
            after == ItemRow(a.items, r.item_id)
        IN /\ HasItem(a.items, r.item_id)
           /\ after.parent_id = NULL => r.parent_id = NULL
           /\ p = NULL => after.parent_id = r.parent_id
           /\ \A o \in a.items : o.item_id # r.item_id => o \in items

\* An item below a folder was just renamed or moved.
C39_Witness ==
    /\ last.op = "update_item_details"
    /\ last.res = 200
    /\ \E r \in items : r.parent_id # NULL /\ r.updated_at # NULL


\* C40: trash, restore, rename or move, share and purge of an item by anybody
\* but its owner (a grantee of the item and the administrator included) are
\* answered 404 and leave items, shares, metadata, requests and payloads as
\* they were.
C40_OnlyOwnerChanges ==
    \A r \in items, u \in UserIds :
        u # r.owner_id =>
            /\ trash_item(items, r.item_id, u, now) = [res |-> 404, items |-> items]
            /\ restore_item(items, r.item_id, u, now) = [res |-> 404, items |-> items]
            /\ \A name \in Names \cup {NoStr}, p \in ParentInputs :
                  update_drive_item(items, r.item_id, u, name, p, now)
                      = [res |-> 404, items |-> items]
            /\ \A g \in Usernames :
                  LET s == share_item(items, shares, users, r.item_id, u, g, now)
                  IN s.res = 404 /\ s.items = items /\ s.shares = shares
            /\ delete_item_permanently(items, meta, shares, reqs, disk, r.item_id, u)
                  = {[res |-> 404, items |-> items, meta |-> meta, shares |-> shares,
                      reqs |-> reqs, disk |-> disk]}

\* A personal-drive operation was just answered 404 while an item with
\* metadata is shared with a user who is not its owner and an administrator
\* who does not own it is known.
C40_Witness ==
    /\ last.op \in {"move_item_to_trash", "restore_item_from_trash", "update_item_details",
                   "share_an_item", "permanently_delete_item"}
    /\ last.res = 404
    /\ \E r \in items :
          /\ HasMeta(meta, r.item_id)
          /\ \E k \in ShareRows(shares, r.item_id) : shares[k].shared_with_user_id # r.owner_id
          /\ \E a \in users : a.role = "ADMIN" /\ a.user_id # r.owner_id

====
